---- MODULE Spec2Model ----
(***************************************************************************)
(* redis-shield: the SHIELD.absorb command and its four traffic policies   *)
(* (token bucket, leaky bucket, fixed window, sliding window) over a       *)
(* key/value store with per-key expiry.                                    *)
(*                                                                         *)
(* Time is the host clock in milliseconds.  Strings (stored payloads) are  *)
(* sequences of one-character strings, so that formatting (itoa) and       *)
(* parsing (str::parse::<i64>) are modelled by what they do.               *)
(* The machine word is narrower than the program's (see I64_MAX): TLC      *)
(* integers are 32 bits wide, so i64 is modelled by a 25-bit signed word   *)
(* and i128 intermediates by TLC's own integers.                           *)
(***************************************************************************)
EXTENDS Integers, Sequences, FiniteSets, TLC

VARIABLES
    now,      \* host clock, milliseconds
    store,    \* storage key -> entry (kind, value, absolute expiry)
    client,   \* the scenario: the clients' policy, their (capacity, period) when they keep
              \* one, audit, and the commands clients have sent that the host has not run yet
    reply,    \* outcome of the command that has just run, if the last step was a command
    hist      \* history: periods of the accepted writes, accepted units of the last period

vars == <<now, store, client, reply, hist>>

-----------------------------------------------------------------------------
(* Bounds of the model *)

\* largest value of the modelled signed machine word (i64::MAX in the program)
I64_MAX == 16777215
\* the host clock stops advancing here
MaxNow == 2000
\* the clock is sampled at multiples of Quantum and at the two milliseconds before each
Quantum == 500
\* capacities 1..MaxCapacity
MaxCapacity == 3
\* periods 1..MaxPeriod seconds
MaxPeriod == 2
\* number of clients that have commands under way at the same time
NumClients == 2

I64_MIN == -I64_MAX - 1

-----------------------------------------------------------------------------
(* Program constants *)

MILLIS_IN_SEC == 1000
MICROS_IN_MILLI == 1000
MIN_TTL == 0
MIN_TOKENS == 0
MIN_LEVEL == 0
MIN_COUNT == 0
MIN_ACTIVE_TTL_MS == 1
INSUFFICIENT_TOKENS == -1
OVERFLOW == -1
INSUFFICIENT_CAPACITY == -1
DEFAULT_TOKENS == 1
DEFAULT_ALGORITHM == "token_bucket"
TRAFFIC_POLICY_KEY_PREFIX == "tp"

ERR_CAPACITY_POSITIVE == "ERR capacity must be positive"
ERR_PERIOD_WINDOW_POSITIVE == "ERR period/window must be positive"
ERR_PERIOD_POSITIVE == "ERR period must be positive"
ERR_BURST_POSITIVE == "ERR burst must be positive"
ERR_TOKENS_POSITIVE == "ERR tokens must be positive"
ERR_PERIOD_TOO_LARGE == "ERR period value too large"
ERR_UNKNOWN_ALGORITHM == "ERR unknown algorithm, supported are [token_bucket, leaky_bucket, fixed_window, sliding_window]"
ERR_INVALID_TOKEN_COUNT == "ERR invalid token count in Redis"
ERR_INVALID_LEVEL == "ERR invalid bucket level in Redis"
ERR_INVALID_COUNTER == "ERR invalid fixed window counter in Redis"
ERR_TIME_UNAVAILABLE == "ERR unable to fetch Redis time"
ERR_WRONGTYPE == "WRONGTYPE Operation against a key holding the wrong kind of value"
ERR_STORE_IO == "ERR store call failed"

-----------------------------------------------------------------------------
(* Machine integers *)

min(a, b) == IF a <= b THEN a ELSE b
max(a, b) == IF a >= b THEN a ELSE b
clamp(x, lo, hi) == IF x < lo THEN lo ELSE IF x > hi THEN hi ELSE x

InWord(x) == I64_MIN <= x /\ x <= I64_MAX
Saturate(x) == clamp(x, I64_MIN, I64_MAX)

saturating_add(a, b) == Saturate(a + b)
saturating_sub(a, b) == Saturate(a - b)
saturating_mul(a, b) == Saturate(a * b)

\* Option<i64>: [some |-> TRUE, v |-> n] or None
None == [some |-> FALSE, v |-> 0]
Some(n) == [some |-> TRUE, v |-> n]
checked_mul(a, b) == IF InWord(a * b) THEN Some(a * b) ELSE None
checked_add(a, b) == IF InWord(a + b) THEN Some(a + b) ELSE None

\* Rust's integer division truncates toward zero
TruncDiv(a, b) ==
    IF (a >= 0) = (b > 0) THEN (IF a >= 0 THEN a \div b ELSE (-a) \div (-b))
    ELSE -((IF a >= 0 THEN a ELSE -a) \div (IF b > 0 THEN b ELSE -b))

\* `as i64` on a wide integer keeps the low bits
Narrow(x) == ((x - I64_MIN) % (2 * (I64_MAX + 1))) + I64_MIN

-----------------------------------------------------------------------------
(* Text: itoa formatting and str::parse::<i64> *)

DigitChars == <<"0", "1", "2", "3", "4", "5", "6", "7", "8", "9">>
DigitSet == {DigitChars[i] : i \in 1..10}
DigitValue(c) == (CHOOSE i \in 1..10 : DigitChars[i] = c) - 1

RECURSIVE FormatNat(_)
FormatNat(n) ==
    IF n < 10 THEN <<DigitChars[n + 1]>>
    ELSE FormatNat(n \div 10) \o <<DigitChars[(n % 10) + 1]>>

\* itoa::Buffer::format
Itoa(n) == IF n < 0 THEN <<"-">> \o FormatNat(-n) ELSE FormatNat(n)

RECURSIVE DigitsValue(_)
DigitsValue(s) ==
    IF s = <<>> THEN 0
    ELSE min(I64_MAX + 2, 10 * DigitsValue(SubSeq(s, 1, Len(s) - 1)) + DigitValue(s[Len(s)]))

\* str::parse::<i64>: optional sign, at least one digit, nothing else, in range
ParseI64(s) ==
    LET ranged(v) == IF InWord(v) THEN Some(v) ELSE None
        digits(body, neg) ==
            IF body = <<>> \/ \E i \in 1..Len(body) : body[i] \notin DigitSet
            THEN None
            ELSE ranged(IF neg THEN -DigitsValue(body) ELSE DigitsValue(body))
    IN IF s = <<>> THEN None
       ELSE digits(IF s[1] \in {"-", "+"} THEN Tail(s) ELSE s, s[1] = "-")

-----------------------------------------------------------------------------
(* The store: the host commands the module consumes *)

NoExpiry == -1
Absent == [kind |-> "absent", val |-> <<>>, exp |-> NoExpiry]
StringEntry(v, e) == [kind |-> "string", val |-> v, exp |-> e]
HashEntry(e) == [kind |-> "hash", val |-> <<>>, exp |-> e]

Algorithms == {"token_bucket", "leaky_bucket", "fixed_window", "sliding_window"}

\* PolicyConfig::suffix
suffix(alg) ==
    CASE alg = "token_bucket" -> "tb"
      [] alg = "leaky_bucket" -> "lb"
      [] alg = "fixed_window" -> "fw"
      [] alg = "sliding_window" -> "sw"

\* variant of build_key that leaves the policy's suffix out
build_key_without_suffix(external_key, sfx) ==
    TRAFFIC_POLICY_KEY_PREFIX \o ":" \o external_key

\* build_key: "tp:<suffix>:<external key>"
build_key(external_key, sfx) == TRAFFIC_POLICY_KEY_PREFIX \o ":" \o sfx \o ":" \o external_key

Subject == "K"

\* a second subject, whose name resembles a key of the first
OtherSubject == "lb:K"
Subjects == {Subject, OtherSubject}
Keys == {build_key(s, suffix(a)) : s \in Subjects, a \in Algorithms}

\* a failed store call (I/O failure injected by the environment)
Faults == {"none", "pttl", "get", "time_new", "time_consume"}

\* reply of a store call: [ok, err, ...]
Ok(fields) == [ok |-> TRUE, err |-> ""] @@ fields
Err(msg, fields) == [ok |-> FALSE, err |-> msg] @@ fields

\* ctx.call("PTTL", key): ms remaining, -1 without expiry, -2 when absent
Call_PTTL(ctx, key) ==
    LET ttl(e) == IF e.kind = "absent" THEN -2
                  ELSE IF e.exp = NoExpiry THEN -1
                  ELSE e.exp - ctx.now
    IN IF ctx.fault = "pttl" THEN Err(ERR_STORE_IO, [ttl |-> 0])
       ELSE Ok([ttl |-> ttl(ctx.store[key])])

\* ctx.call("GET", key): the string, Null when absent, WRONGTYPE for another type
Call_GET(ctx, key) ==
    LET get(e) == CASE e.kind = "absent" -> Ok([null |-> TRUE, s |-> <<>>])
                    [] e.kind = "hash" -> Err(ERR_WRONGTYPE, [null |-> TRUE, s |-> <<>>])
                    [] OTHER -> Ok([null |-> FALSE, s |-> e.val])
    IN IF ctx.fault = "get" THEN Err(ERR_STORE_IO, [null |-> TRUE, s |-> <<>>])
       ELSE get(ctx.store[key])

\* ctx.call("PSETEX", key, ttl_ms, value): set the string with a fresh expiry
Call_PSETEX(ctx, key, ttl_str, val_str) ==
    [ctx.store EXCEPT ![key] = StringEntry(val_str, ctx.now + ParseI64(ttl_str).v)]

\* ctx.call("SET", key, value, "KEEPTTL"): set the string, keep the expiry
Call_SET_KEEPTTL(ctx, key, val_str) ==
    [ctx.store EXCEPT ![key] = StringEntry(val_str, ctx.store[key].exp)]

\* ctx.call("TIME"): (seconds, microseconds), as text
Call_TIME(ctx, which) ==
    IF ctx.fault = which THEN Err(ERR_STORE_IO, [seconds |-> <<>>, micros |-> <<>>])
    ELSE Ok([seconds |-> Itoa(ctx.now \div MILLIS_IN_SEC),
             micros |-> Itoa((ctx.now % MILLIS_IN_SEC) * MICROS_IN_MILLI)])

-----------------------------------------------------------------------------
(* Token bucket (bucket.rs) *)

\* variant of fetch_tokens that adds no refill to a key without expiry
fetch_tokens_trusting_no_expiry(ctx, key, capacity, period) ==
    LET refilled_tokens(current_ttl) ==
            Narrow(TruncDiv((period - current_ttl) * capacity, period))
        remaining_tokens(got) ==
            IF got.null THEN MIN_TOKENS ELSE max(ParseI64(got.s).v, MIN_TOKENS)
        fetched(pttl, got) ==
            IF ~pttl.ok THEN Err(pttl.err, [tokens |-> 0])
            ELSE IF ~got.ok THEN Err(got.err, [tokens |-> 0])
            ELSE IF ~got.null /\ ~ParseI64(got.s).some
            THEN Err(ERR_INVALID_TOKEN_COUNT, [tokens |-> 0])
            ELSE Ok([tokens |->
                        min(saturating_add(remaining_tokens(got),
                                           refilled_tokens(IF pttl.ttl = NoExpiry THEN period
                                                           ELSE clamp(pttl.ttl, MIN_TTL, period))),
                            capacity)])
    IN fetched(Call_PTTL(ctx, key), Call_GET(ctx, key))

\* variant of fetch_tokens that rounds the refill up
fetch_tokens_rounding_up(ctx, key, capacity, period) ==
    LET refilled_tokens(current_ttl) ==
            Narrow(TruncDiv((period - current_ttl) * capacity + period - 1, period))
        remaining_tokens(got) ==
            IF got.null THEN MIN_TOKENS ELSE max(ParseI64(got.s).v, MIN_TOKENS)
        fetched(pttl, got) ==
            IF ~pttl.ok THEN Err(pttl.err, [tokens |-> 0])
            ELSE IF ~got.ok THEN Err(got.err, [tokens |-> 0])
            ELSE IF ~got.null /\ ~ParseI64(got.s).some
            THEN Err(ERR_INVALID_TOKEN_COUNT, [tokens |-> 0])
            ELSE Ok([tokens |->
                        min(saturating_add(remaining_tokens(got),
                                           refilled_tokens(clamp(pttl.ttl, MIN_TTL, period))),
                            capacity)])
    IN fetched(Call_PTTL(ctx, key), Call_GET(ctx, key))

\* variant of fetch_tokens that refills by the time remaining instead of the time elapsed
fetch_tokens_refilling_by_ttl(ctx, key, capacity, period) ==
    LET refilled_tokens(current_ttl) ==
            Narrow(TruncDiv(current_ttl * capacity, period))
        remaining_tokens(got) ==
            IF got.null THEN MIN_TOKENS ELSE max(ParseI64(got.s).v, MIN_TOKENS)
        fetched(pttl, got) ==
            IF ~pttl.ok THEN Err(pttl.err, [tokens |-> 0])
            ELSE IF ~got.ok THEN Err(got.err, [tokens |-> 0])
            ELSE IF ~got.null /\ ~ParseI64(got.s).some
            THEN Err(ERR_INVALID_TOKEN_COUNT, [tokens |-> 0])
            ELSE Ok([tokens |->
                        min(saturating_add(remaining_tokens(got),
                                           refilled_tokens(clamp(pttl.ttl, MIN_TTL, period))),
                            capacity)])
    IN fetched(Call_PTTL(ctx, key), Call_GET(ctx, key))

\* variant of fetch_tokens that refills at twice the rate
fetch_tokens_refilling_twice(ctx, key, capacity, period) ==
    LET refilled_tokens(current_ttl) ==
            Narrow(TruncDiv(2 * (period - current_ttl) * capacity, period))
        remaining_tokens(got) ==
            IF got.null THEN MIN_TOKENS ELSE max(ParseI64(got.s).v, MIN_TOKENS)
        fetched(pttl, got) ==
            IF ~pttl.ok THEN Err(pttl.err, [tokens |-> 0])
            ELSE IF ~got.ok THEN Err(got.err, [tokens |-> 0])
            ELSE IF ~got.null /\ ~ParseI64(got.s).some
            THEN Err(ERR_INVALID_TOKEN_COUNT, [tokens |-> 0])
            ELSE Ok([tokens |->
                        min(saturating_add(remaining_tokens(got),
                                           refilled_tokens(clamp(pttl.ttl, MIN_TTL, period))),
                            capacity)])
    IN fetched(Call_PTTL(ctx, key), Call_GET(ctx, key))

\* Bucket::fetch_tokens
fetch_tokens(ctx, key, capacity, period) ==
    LET refilled_tokens(current_ttl) ==
            Narrow(TruncDiv((period - current_ttl) * capacity, period))
        remaining_tokens(got) ==
            IF got.null THEN MIN_TOKENS ELSE max(ParseI64(got.s).v, MIN_TOKENS)
        fetched(pttl, got) ==
            IF ~pttl.ok THEN Err(pttl.err, [tokens |-> 0])
            ELSE IF ~got.ok THEN Err(got.err, [tokens |-> 0])
            ELSE IF ~got.null /\ ~ParseI64(got.s).some
            THEN Err(ERR_INVALID_TOKEN_COUNT, [tokens |-> 0])
            ELSE Ok([tokens |->
                        min(saturating_add(remaining_tokens(got),
                                           refilled_tokens(clamp(pttl.ttl, MIN_TTL, period))),
                            capacity)])
    IN fetched(Call_PTTL(ctx, key), Call_GET(ctx, key))

\* Bucket::new
Bucket_new(ctx, key, capacity, period_sec) ==
    LET blank == [key |-> key, capacity |-> capacity, period |-> 0, tokens |-> MIN_TOKENS]
        built(period_ms, fetched) ==
            IF ~fetched.ok THEN Err(fetched.err, [self |-> blank])
            ELSE Ok([self |-> [blank EXCEPT !.period = period_ms, !.tokens = fetched.tokens]])
        checked(period_ms) ==
            IF ~period_ms.some THEN Err(ERR_PERIOD_TOO_LARGE, [self |-> blank])
            ELSE built(period_ms.v, fetch_tokens(ctx, key, capacity, period_ms.v))
    IN IF capacity <= 0 THEN Err(ERR_CAPACITY_POSITIVE, [self |-> blank])
       ELSE IF period_sec <= 0 THEN Err(ERR_PERIOD_POSITIVE, [self |-> blank])
       ELSE checked(checked_mul(period_sec, MILLIS_IN_SEC))

\* variant of pour that persists the refilled tokens even when it denies
pour_persisting_denial(ctx, self, tokens) ==
    LET persisted(left) == Call_PSETEX(ctx, self.key, Itoa(self.period), Itoa(left))
    IN IF tokens <= 0 THEN Err(ERR_TOKENS_POSITIVE, [value |-> 0, store |-> ctx.store])
       ELSE IF tokens > self.tokens
       THEN Ok([value |-> INSUFFICIENT_TOKENS, store |-> persisted(self.tokens)])
       ELSE Ok([value |-> self.tokens - tokens, store |-> persisted(self.tokens - tokens)])

\* variant of pour that denies a request for exactly the tokens available
pour_denying_exact(ctx, self, tokens) ==
    LET poured(left) ==
            Ok([value |-> left,
                store |-> Call_PSETEX(ctx, self.key, Itoa(self.period), Itoa(left))])
    IN IF tokens <= 0 THEN Err(ERR_TOKENS_POSITIVE, [value |-> 0, store |-> ctx.store])
       ELSE IF tokens >= self.tokens
       THEN Ok([value |-> INSUFFICIENT_TOKENS, store |-> ctx.store])
       ELSE poured(self.tokens - tokens)

\* variant of pour that keeps the key's expiry when it writes
pour_keeping_ttl(ctx, self, tokens) ==
    LET poured(left) ==
            Ok([value |-> left,
                store |-> Call_SET_KEEPTTL(ctx, self.key, Itoa(left))])
    IN IF tokens <= 0 THEN Err(ERR_TOKENS_POSITIVE, [value |-> 0, store |-> ctx.store])
       ELSE IF tokens > self.tokens
       THEN Ok([value |-> INSUFFICIENT_TOKENS, store |-> ctx.store])
       ELSE poured(self.tokens - tokens)
\* variant of pour that lets the key live for two periods
pour_for_two_periods(ctx, self, tokens) ==
    LET poured(left) ==
            Ok([value |-> left,
                store |-> Call_PSETEX(ctx, self.key, Itoa(2 * self.period), Itoa(left))])
    IN IF tokens <= 0 THEN Err(ERR_TOKENS_POSITIVE, [value |-> 0, store |-> ctx.store])
       ELSE IF tokens > self.tokens
       THEN Ok([value |-> INSUFFICIENT_TOKENS, store |-> ctx.store])
       ELSE poured(self.tokens - tokens)

\* Bucket::pour
pour(ctx, self, tokens) ==
    LET poured(left) ==
            Ok([value |-> left,
                store |-> Call_PSETEX(ctx, self.key, Itoa(self.period), Itoa(left))])
    IN IF tokens <= 0 THEN Err(ERR_TOKENS_POSITIVE, [value |-> 0, store |-> ctx.store])
       ELSE IF tokens > self.tokens
       THEN Ok([value |-> INSUFFICIENT_TOKENS, store |-> ctx.store])
       ELSE poured(self.tokens - tokens)

-----------------------------------------------------------------------------
(* Leaky bucket (algorithm/leaky_bucket.rs) *)

\* LeakyBucket::fetch_level
fetch_level(ctx, key, capacity, period) ==
    LET leaked(current_ttl) ==
            Narrow(TruncDiv((period - current_ttl) * capacity, period))
        stored_level(got) ==
            IF got.null THEN MIN_LEVEL ELSE max(ParseI64(got.s).v, MIN_LEVEL)
        fetched(pttl, got) ==
            IF ~pttl.ok THEN Err(pttl.err, [level |-> 0])
            ELSE IF ~got.ok THEN Err(got.err, [level |-> 0])
            ELSE IF ~got.null /\ ~ParseI64(got.s).some
            THEN Err(ERR_INVALID_LEVEL, [level |-> 0])
            ELSE Ok([level |->
                        min(saturating_sub(stored_level(got),
                                           leaked(clamp(pttl.ttl, MIN_TTL, period))),
                            capacity)])
    IN fetched(Call_PTTL(ctx, key), Call_GET(ctx, key))

\* LeakyBucket::new
LeakyBucket_new(ctx, key, capacity, period_sec) ==
    LET blank == [key |-> key, capacity |-> capacity, period |-> 0, level |-> MIN_LEVEL]
        built(period_ms, fetched) ==
            IF ~fetched.ok THEN Err(fetched.err, [self |-> blank])
            ELSE Ok([self |-> [blank EXCEPT !.period = period_ms, !.level = fetched.level]])
        checked(period_ms) ==
            IF ~period_ms.some THEN Err(ERR_PERIOD_TOO_LARGE, [self |-> blank])
            ELSE built(period_ms.v, fetch_level(ctx, key, capacity, period_ms.v))
    IN IF capacity <= 0 THEN Err(ERR_CAPACITY_POSITIVE, [self |-> blank])
       ELSE IF period_sec <= 0 THEN Err(ERR_PERIOD_POSITIVE, [self |-> blank])
       ELSE checked(checked_mul(period_sec, MILLIS_IN_SEC))

\* variant of add that persists the level without renewing the key's expiry
add_keeping_ttl(ctx, self, burst) ==
    LET added(level) ==
            Ok([value |-> self.capacity - level,
                store |-> Call_SET_KEEPTTL(ctx, self.key, Itoa(level))])
    IN IF burst <= 0 THEN Err(ERR_BURST_POSITIVE, [value |-> 0, store |-> ctx.store])
       ELSE IF saturating_add(self.level, burst) > self.capacity
       THEN Ok([value |-> OVERFLOW, store |-> ctx.store])
       ELSE added(min(saturating_add(self.level, burst), self.capacity))

\* LeakyBucket::add
add(ctx, self, burst) ==
    LET added(level) ==
            Ok([value |-> self.capacity - level,
                store |-> Call_PSETEX(ctx, self.key, Itoa(self.period), Itoa(level))])
    IN IF burst <= 0 THEN Err(ERR_BURST_POSITIVE, [value |-> 0, store |-> ctx.store])
       ELSE IF saturating_add(self.level, burst) > self.capacity
       THEN Ok([value |-> OVERFLOW, store |-> ctx.store])
       ELSE added(min(saturating_add(self.level, burst), self.capacity))

-----------------------------------------------------------------------------
(* Fixed window (algorithm/fixed_window.rs) *)

\* variant of fetch_count that decodes the stored value even without an active window
fetch_count_decoding_always(ctx, key) ==
    LET counted(got, active) ==
            IF ~got.ok THEN Err(got.err, [count |-> 0, has_active_window |-> active])
            ELSE IF got.null THEN Ok([count |-> MIN_COUNT, has_active_window |-> active])
            ELSE IF ~ParseI64(got.s).some
            THEN Err(ERR_INVALID_COUNTER, [count |-> 0, has_active_window |-> active])
            ELSE Ok([count |-> IF active THEN max(ParseI64(got.s).v, MIN_COUNT) ELSE MIN_COUNT,
                     has_active_window |-> active])
        fetched(pttl) ==
            IF ~pttl.ok THEN Err(pttl.err, [count |-> 0, has_active_window |-> FALSE])
            ELSE counted(Call_GET(ctx, key), pttl.ttl > MIN_ACTIVE_TTL_MS)
    IN fetched(Call_PTTL(ctx, key))

\* variant of fetch_count that reads no count in an active window
fetch_count_forgetting_count(ctx, key) ==
    LET counted(got) ==
            IF ~got.ok THEN Err(got.err, [count |-> 0, has_active_window |-> TRUE])
            ELSE IF got.null THEN Ok([count |-> MIN_COUNT, has_active_window |-> TRUE])
            ELSE IF ~ParseI64(got.s).some
            THEN Err(ERR_INVALID_COUNTER, [count |-> 0, has_active_window |-> TRUE])
            ELSE Ok([count |-> MIN_COUNT, has_active_window |-> TRUE])
        fetched(pttl) ==
            IF ~pttl.ok THEN Err(pttl.err, [count |-> 0, has_active_window |-> FALSE])
            ELSE IF ~(pttl.ttl > MIN_ACTIVE_TTL_MS)
            THEN Ok([count |-> MIN_COUNT, has_active_window |-> FALSE])
            ELSE counted(Call_GET(ctx, key))
    IN fetched(Call_PTTL(ctx, key))

\* variant of fetch_count that still sees an active window at the threshold TTL
fetch_count_active_at_threshold(ctx, key) ==
    LET counted(got) ==
            IF ~got.ok THEN Err(got.err, [count |-> 0, has_active_window |-> TRUE])
            ELSE IF got.null THEN Ok([count |-> MIN_COUNT, has_active_window |-> TRUE])
            ELSE IF ~ParseI64(got.s).some
            THEN Err(ERR_INVALID_COUNTER, [count |-> 0, has_active_window |-> TRUE])
            ELSE Ok([count |-> max(ParseI64(got.s).v, MIN_COUNT), has_active_window |-> TRUE])
        fetched(pttl) ==
            IF ~pttl.ok THEN Err(pttl.err, [count |-> 0, has_active_window |-> FALSE])
            ELSE IF ~(pttl.ttl >= MIN_ACTIVE_TTL_MS)
            THEN Ok([count |-> MIN_COUNT, has_active_window |-> FALSE])
            ELSE counted(Call_GET(ctx, key))
    IN fetched(Call_PTTL(ctx, key))

\* FixedWindow::fetch_count
fetch_count(ctx, key) ==
    LET counted(got) ==
            IF ~got.ok THEN Err(got.err, [count |-> 0, has_active_window |-> TRUE])
            ELSE IF got.null THEN Ok([count |-> MIN_COUNT, has_active_window |-> TRUE])
            ELSE IF ~ParseI64(got.s).some
            THEN Err(ERR_INVALID_COUNTER, [count |-> 0, has_active_window |-> TRUE])
            ELSE Ok([count |-> max(ParseI64(got.s).v, MIN_COUNT), has_active_window |-> TRUE])
        fetched(pttl) ==
            IF ~pttl.ok THEN Err(pttl.err, [count |-> 0, has_active_window |-> FALSE])
            ELSE IF ~(pttl.ttl > MIN_ACTIVE_TTL_MS)
            THEN Ok([count |-> MIN_COUNT, has_active_window |-> FALSE])
            ELSE counted(Call_GET(ctx, key))
    IN fetched(Call_PTTL(ctx, key))

\* FixedWindow::new
FixedWindow_new(ctx, key, capacity, period_sec) ==
    LET blank == [key |-> key, capacity |-> capacity, period |-> 0, count |-> MIN_COUNT,
                  has_active_window |-> FALSE]
        built(period_ms, fetched) ==
            IF ~fetched.ok THEN Err(fetched.err, [self |-> blank])
            ELSE Ok([self |-> [blank EXCEPT !.period = period_ms, !.count = fetched.count,
                                            !.has_active_window = fetched.has_active_window]])
        checked(period_ms) ==
            IF ~period_ms.some THEN Err(ERR_PERIOD_TOO_LARGE, [self |-> blank])
            ELSE built(period_ms.v, fetch_count(ctx, key))
    IN IF capacity <= 0 THEN Err(ERR_CAPACITY_POSITIVE, [self |-> blank])
       ELSE IF period_sec <= 0 THEN Err(ERR_PERIOD_POSITIVE, [self |-> blank])
       ELSE checked(checked_mul(period_sec, MILLIS_IN_SEC))

\* variant of persist_count that never sets an expiry
persist_count_without_expiry(ctx, self) ==
    Call_SET_KEEPTTL(ctx, self.key, Itoa(self.count))

\* variant of persist_count that restarts the expiry on every write
persist_count_restarting_window(ctx, self) ==
    Call_PSETEX(ctx, self.key, Itoa(self.period), Itoa(self.count))

\* FixedWindow::persist_count
persist_count(ctx, self) ==
    IF self.has_active_window
    THEN Call_SET_KEEPTTL(ctx, self.key, Itoa(self.count))
    ELSE Call_PSETEX(ctx, self.key, Itoa(self.period), Itoa(self.count))

\* variant of consume whose capacity test forgets the requested units
FixedWindow_consume_ignoring_units(ctx, self, tokens) ==
    LET consumed(count) ==
            Ok([value |-> self.capacity - count,
                store |-> persist_count(ctx, [self EXCEPT !.count = count])])
    IN IF tokens <= 0 THEN Err(ERR_TOKENS_POSITIVE, [value |-> 0, store |-> ctx.store])
       ELSE IF self.count > self.capacity
       THEN Ok([value |-> INSUFFICIENT_CAPACITY, store |-> ctx.store])
       ELSE consumed(min(saturating_add(self.count, tokens), self.capacity))

\* FixedWindow::consume
FixedWindow_consume(ctx, self, tokens) ==
    LET consumed(count) ==
            Ok([value |-> self.capacity - count,
                store |-> persist_count(ctx, [self EXCEPT !.count = count])])
    IN IF tokens <= 0 THEN Err(ERR_TOKENS_POSITIVE, [value |-> 0, store |-> ctx.store])
       ELSE IF saturating_add(self.count, tokens) > self.capacity
       THEN Ok([value |-> INSUFFICIENT_CAPACITY, store |-> ctx.store])
       ELSE consumed(min(saturating_add(self.count, tokens), self.capacity))

-----------------------------------------------------------------------------
(* Sliding window (algorithm/sliding_window.rs) *)

\* SlidingWindow::current_time_millis (with parse_i64 on both fields)
current_time_millis(ctx, which) ==
    LET summed(total) ==
            IF ~total.some THEN Err(ERR_TIME_UNAVAILABLE, [ms |-> 0]) ELSE Ok([ms |-> total.v])
        converted(millis_from_secs, micros) ==
            IF ~millis_from_secs.some THEN Err(ERR_TIME_UNAVAILABLE, [ms |-> 0])
            ELSE summed(checked_add(millis_from_secs.v, TruncDiv(micros, MICROS_IN_MILLI)))
        parsed(seconds, micros) ==
            IF ~seconds.some \/ ~micros.some THEN Err(ERR_TIME_UNAVAILABLE, [ms |-> 0])
            ELSE converted(checked_mul(seconds.v, MILLIS_IN_SEC), micros.v)
        timed(t) ==
            IF ~t.ok THEN Err(t.err, [ms |-> 0])
            ELSE parsed(ParseI64(t.seconds), ParseI64(t.micros))
    IN timed(Call_TIME(ctx, which))

\* index of the first ':' of s at or after position i, 0 when there is none
RECURSIVE FindColon(_, _)
FindColon(s, i) ==
    IF i > Len(s) THEN 0 ELSE IF s[i] = ":" THEN i ELSE FindColon(s, i + 1)

\* SlidingWindow::decode_state: payload.splitn(3, ':'), each part parsed
decode_state(payload) ==
    LET none == [some |-> FALSE, start |-> 0, current |-> 0, previous |-> 0]
        fields(start, current, previous) ==
            IF ~start.some \/ ~current.some \/ ~previous.some THEN none
            ELSE [some |-> TRUE, start |-> start.v, current |-> current.v,
                  previous |-> previous.v]
        split(c1, c2) ==
            IF c1 = 0 \/ c2 = 0 THEN none
            ELSE fields(ParseI64(SubSeq(payload, 1, c1 - 1)),
                        ParseI64(SubSeq(payload, c1 + 1, c2 - 1)),
                        ParseI64(SubSeq(payload, c2 + 1, Len(payload))))
        first(c1) == split(c1, IF c1 = 0 THEN 0 ELSE FindColon(payload, c1 + 1))
    IN first(FindColon(payload, 1))

\* variant of encode_state that writes the previous count before the current one
encode_state_swapping_counts(self) ==
    Itoa(self.current_start) \o <<":">> \o Itoa(self.previous_count) \o <<":">>
        \o Itoa(self.current_count)

\* SlidingWindow::encode_state (copy_number writes itoa digits)
encode_state(self) ==
    Itoa(self.current_start) \o <<":">> \o Itoa(self.current_count) \o <<":">>
        \o Itoa(self.previous_count)
\* variant of align_to_now that keeps the last count however many windows have passed
align_to_now_keeping_history(self, now_ms) ==
    LET moved(current_start, previous_count) ==
            [self |-> [self EXCEPT !.current_start = current_start,
                                   !.current_count = MIN_COUNT,
                                   !.previous_count = previous_count],
             elapsed |-> saturating_sub(now_ms, current_start)]
        advanced(start0, windows_passed, product) ==
            moved(min(saturating_add(start0, IF product.some THEN product.v ELSE self.period),
                      now_ms),
                  self.current_count)
        passed(start0, windows_passed) ==
            advanced(start0, windows_passed, checked_mul(windows_passed, self.period))
        slid(start0, elapsed) ==
            IF elapsed >= self.period
            THEN passed(start0, TruncDiv(elapsed, self.period))
            ELSE [self |-> [self EXCEPT !.current_start = start0], elapsed |-> elapsed]
        started(start0) == slid(start0, saturating_sub(now_ms, start0))
    IN started(IF self.current_start > now_ms \/ self.current_start < 0
               THEN now_ms ELSE self.current_start)

\* variant of align_to_now that advances the window start by one period at most
align_to_now_advancing_one_window(self, now_ms) ==
    LET moved(current_start, previous_count) ==
            [self |-> [self EXCEPT !.current_start = current_start,
                                   !.current_count = MIN_COUNT,
                                   !.previous_count = previous_count],
             elapsed |-> saturating_sub(now_ms, current_start)]
        advanced(start0, windows_passed, product) ==
            moved(min(saturating_add(start0, self.period),
                      now_ms),
                  IF windows_passed = 1 THEN self.current_count ELSE MIN_COUNT)
        passed(start0, windows_passed) ==
            advanced(start0, windows_passed, checked_mul(windows_passed, self.period))
        slid(start0, elapsed) ==
            IF elapsed >= self.period
            THEN passed(start0, TruncDiv(elapsed, self.period))
            ELSE [self |-> [self EXCEPT !.current_start = start0], elapsed |-> elapsed]
        started(start0) == slid(start0, saturating_sub(now_ms, start0))
    IN started(IF self.current_start > now_ms \/ self.current_start < 0
               THEN now_ms ELSE self.current_start)

\* SlidingWindow::align_to_now: the aligned state and the elapsed time it returns
align_to_now(self, now_ms) ==
    LET moved(current_start, previous_count) ==
            [self |-> [self EXCEPT !.current_start = current_start,
                                   !.current_count = MIN_COUNT,
                                   !.previous_count = previous_count],
             elapsed |-> saturating_sub(now_ms, current_start)]
        advanced(start0, windows_passed, product) ==
            moved(min(saturating_add(start0, IF product.some THEN product.v ELSE self.period),
                      now_ms),
                  IF windows_passed = 1 THEN self.current_count ELSE MIN_COUNT)
        passed(start0, windows_passed) ==
            advanced(start0, windows_passed, checked_mul(windows_passed, self.period))
        slid(start0, elapsed) ==
            IF elapsed >= self.period
            THEN passed(start0, TruncDiv(elapsed, self.period))
            ELSE [self |-> [self EXCEPT !.current_start = start0], elapsed |-> elapsed]
        started(start0) == slid(start0, saturating_sub(now_ms, start0))
    IN started(IF self.current_start > now_ms \/ self.current_start < 0
               THEN now_ms ELSE self.current_start)

\* variant of apply_state that takes the decoded fields as they are
apply_state_trusting_payload(self, payload, now_ms) ==
    LET loaded(d) ==
            IF d.some
            THEN [self EXCEPT !.current_start = d.start,
                              !.current_count = d.current,
                              !.previous_count = d.previous]
            ELSE [self EXCEPT !.current_start = now_ms, !.current_count = MIN_COUNT,
                              !.previous_count = MIN_COUNT]
    IN align_to_now(loaded(decode_state(payload)), now_ms).self

\* SlidingWindow::apply_state
apply_state(self, payload, now_ms) ==
    LET loaded(d) ==
            IF d.some
            THEN [self EXCEPT !.current_start = min(max(d.start, MIN_COUNT), now_ms),
                              !.current_count = min(max(d.current, MIN_COUNT), self.capacity),
                              !.previous_count = min(max(d.previous, MIN_COUNT), self.capacity)]
            ELSE [self EXCEPT !.current_start = now_ms, !.current_count = MIN_COUNT,
                              !.previous_count = MIN_COUNT]
    IN align_to_now(loaded(decode_state(payload)), now_ms).self

\* variant of load_state that rejects a payload it cannot decode
load_state_rejecting_payload(ctx, self, now_ms) ==
    LET loaded(got) ==
            IF ~got.ok THEN Err(got.err, [self |-> self])
            ELSE IF got.null THEN Ok([self |-> self])
            ELSE IF ~decode_state(got.s).some THEN Err(ERR_INVALID_COUNTER, [self |-> self])
            ELSE Ok([self |-> apply_state(self, got.s, now_ms)])
    IN loaded(Call_GET(ctx, self.key))

\* SlidingWindow::load_state
load_state(ctx, self, now_ms) ==
    LET loaded(got) ==
            IF ~got.ok THEN Err(got.err, [self |-> self])
            ELSE IF got.null THEN Ok([self |-> self])
            ELSE Ok([self |-> apply_state(self, got.s, now_ms)])
    IN loaded(Call_GET(ctx, self.key))

\* SlidingWindow::new
SlidingWindow_new(ctx, key, capacity, period_sec) ==
    LET blank == [key |-> key, capacity |-> capacity, period |-> 0,
                  current_start |-> 0, current_count |-> MIN_COUNT,
                  previous_count |-> MIN_COUNT]
        built(loaded) ==
            IF ~loaded.ok THEN Err(loaded.err, [self |-> blank]) ELSE Ok([self |-> loaded.self])
        timed(period_ms, now_ms) ==
            IF ~now_ms.ok THEN Err(now_ms.err, [self |-> blank])
            ELSE built(load_state(ctx, [blank EXCEPT !.period = period_ms,
                                                     !.current_start = now_ms.ms], now_ms.ms))
        checked(period_ms) ==
            IF ~period_ms.some THEN Err(ERR_PERIOD_TOO_LARGE, [self |-> blank])
            ELSE timed(period_ms.v, current_time_millis(ctx, "time_new"))
    IN IF capacity <= 0 THEN Err(ERR_CAPACITY_POSITIVE, [self |-> blank])
       ELSE IF period_sec <= 0 THEN Err(ERR_PERIOD_POSITIVE, [self |-> blank])
       ELSE checked(checked_mul(period_sec, MILLIS_IN_SEC))

\* variant of effective_usage that gives the previous window no weight
effective_usage_ignoring_previous(self, elapsed) ==
    min(self.current_count, self.capacity)

\* variant of effective_usage that weighs the previous window by the time elapsed
effective_usage_weighing_elapsed(self, elapsed) ==
    LET weighted_previous(remaining) ==
            IF self.period = 0 THEN MIN_COUNT
            ELSE Narrow(TruncDiv(self.previous_count * remaining, self.period))
    IN min(saturating_add(self.current_count, weighted_previous(elapsed)),
           self.capacity)

\* SlidingWindow::effective_usage
effective_usage(self, elapsed) ==
    LET weighted_previous(remaining) ==
            IF self.period = 0 THEN MIN_COUNT
            ELSE Narrow(TruncDiv(self.previous_count * remaining, self.period))
    IN min(saturating_add(self.current_count,
                          weighted_previous(saturating_sub(self.period, elapsed))),
           self.capacity)

\* variant of persist_state that lets the key live for one period only
persist_state_for_one_period(ctx, self) ==
    Call_PSETEX(ctx, self.key, Itoa(self.period), encode_state(self))

\* SlidingWindow::persist_state
persist_state(ctx, self) ==
    Call_PSETEX(ctx, self.key, Itoa(max(saturating_mul(self.period, 2), self.period)),
                encode_state(self))

\* variant of consume whose capacity test forgets the requested units
SlidingWindow_consume_ignoring_units(ctx, self, tokens) ==
    LET decided(aligned, usage) ==
            IF usage > self.capacity
            THEN Ok([value |-> INSUFFICIENT_CAPACITY, store |-> ctx.store])
            ELSE Ok([value |-> max(self.capacity - usage - tokens, MIN_COUNT),
                     store |-> persist_state(ctx,
                         [aligned EXCEPT !.current_count =
                             min(saturating_add(aligned.current_count, tokens), self.capacity)])])
        aligned_to(a) == decided(a.self, effective_usage(a.self, a.elapsed))
        timed(now_ms) ==
            IF ~now_ms.ok THEN Err(now_ms.err, [value |-> 0, store |-> ctx.store])
            ELSE aligned_to(align_to_now(self, now_ms.ms))
    IN IF tokens <= 0 THEN Err(ERR_TOKENS_POSITIVE, [value |-> 0, store |-> ctx.store])
       ELSE timed(current_time_millis(ctx, "time_consume"))

\* variant of consume that persists the aligned window when it denies
SlidingWindow_consume_persisting_alignment(ctx, self, tokens) ==
    LET decided(aligned, usage) ==
            IF saturating_add(usage, tokens) > self.capacity
            THEN Ok([value |-> INSUFFICIENT_CAPACITY, store |-> persist_state(ctx, aligned)])
            ELSE Ok([value |-> max(self.capacity - usage - tokens, MIN_COUNT),
                     store |-> persist_state(ctx,
                         [aligned EXCEPT !.current_count =
                             min(saturating_add(aligned.current_count, tokens), self.capacity)])])
        aligned_to(a) == decided(a.self, effective_usage(a.self, a.elapsed))
        timed(now_ms) ==
            IF ~now_ms.ok THEN Err(now_ms.err, [value |-> 0, store |-> ctx.store])
            ELSE aligned_to(align_to_now(self, now_ms.ms))
    IN IF tokens <= 0 THEN Err(ERR_TOKENS_POSITIVE, [value |-> 0, store |-> ctx.store])
       ELSE timed(current_time_millis(ctx, "time_consume"))

\* SlidingWindow::consume
SlidingWindow_consume(ctx, self, tokens) ==
    LET decided(aligned, usage) ==
            IF saturating_add(usage, tokens) > self.capacity
            THEN Ok([value |-> INSUFFICIENT_CAPACITY, store |-> ctx.store])
            ELSE Ok([value |-> max(self.capacity - usage - tokens, MIN_COUNT),
                     store |-> persist_state(ctx,
                         [aligned EXCEPT !.current_count =
                             min(saturating_add(aligned.current_count, tokens), self.capacity)])])
        aligned_to(a) == decided(a.self, effective_usage(a.self, a.elapsed))
        timed(now_ms) ==
            IF ~now_ms.ok THEN Err(now_ms.err, [value |-> 0, store |-> ctx.store])
            ELSE aligned_to(align_to_now(self, now_ms.ms))
    IN IF tokens <= 0 THEN Err(ERR_TOKENS_POSITIVE, [value |-> 0, store |-> ctx.store])
       ELSE timed(current_time_millis(ctx, "time_consume"))

-----------------------------------------------------------------------------
(* The command: argument validation, executor construction, execution *)

\* parse_positive_integer
parse_positive_integer(value, err_msg) ==
    LET positive(parsed) ==
            IF parsed.some /\ parsed.v > 0 THEN Ok([v |-> parsed.v]) ELSE Err(err_msg, [v |-> 0])
    IN positive(ParseI64(value))

\* parse_command_args_inner, the 7-argument layout
\* (CMD key capacity period units ALGORITHM name)
parse_command_args(args) ==
    LET parsed(tokens, capacity, period, command) ==
            IF ~tokens.ok THEN Err(tokens.err, [command |-> command])
            ELSE IF ~capacity.ok THEN Err(capacity.err, [command |-> command])
            ELSE IF ~period.ok THEN Err(period.err, [command |-> command])
            ELSE IF args.algorithm \notin Algorithms
            THEN Err(ERR_UNKNOWN_ALGORITHM, [command |-> command])
            ELSE Ok([command |-> [command EXCEPT !.capacity = capacity.v, !.period = period.v,
                                                 !.tokens = tokens.v]])
    IN parsed(parse_positive_integer(args.tokens, ERR_TOKENS_POSITIVE),
              parse_positive_integer(args.capacity, ERR_CAPACITY_POSITIVE),
              parse_positive_integer(args.period, ERR_PERIOD_WINDOW_POSITIVE),
              [key |-> args.key, algorithm |-> args.algorithm, capacity |-> 0, period |-> 0,
               tokens |-> 0])

\* create_executor: build the internal key, construct the policy's executor
create_executor(cfg, ctx, key) ==
    LET constructed(internal_key) ==
            CASE cfg.algorithm = "token_bucket" ->
                     Bucket_new(ctx, internal_key, cfg.capacity, cfg.period)
              [] cfg.algorithm = "leaky_bucket" ->
                     LeakyBucket_new(ctx, internal_key, cfg.capacity, cfg.period)
              [] cfg.algorithm = "fixed_window" ->
                     FixedWindow_new(ctx, internal_key, cfg.capacity, cfg.period)
              [] cfg.algorithm = "sliding_window" ->
                     SlidingWindow_new(ctx, internal_key, cfg.capacity, cfg.period)
    IN constructed(build_key(key, suffix(cfg.algorithm)))

\* TrafficPolicyExecutor::execute
execute(algorithm, ctx, self, tokens) ==
    CASE algorithm = "token_bucket" -> pour(ctx, self, tokens)
      [] algorithm = "leaky_bucket" -> add(ctx, self, tokens)
      [] algorithm = "fixed_window" -> FixedWindow_consume(ctx, self, tokens)
      [] algorithm = "sliding_window" -> SlidingWindow_consume(ctx, self, tokens)

\* variant of redis_command that deletes the key when the policy cannot be constructed
redis_command_dropping_key(ctx, args) ==
    LET dropped(key) == [ctx.store EXCEPT ![key] = Absent]
        executed(command, executor) ==
            IF ~executor.ok
            THEN Err(executor.err,
                     [value |-> 0,
                      store |-> dropped(build_key(command.key, suffix(command.algorithm)))])
            ELSE execute(command.algorithm, ctx, executor.self, command.tokens)
        parsed(p) ==
            IF ~p.ok THEN Err(p.err, [value |-> 0, store |-> ctx.store])
            ELSE executed(p.command, create_executor(p.command, ctx, p.command.key))
    IN parsed(parse_command_args(args))

\* a redis_command that remembers in the process that the last command was denied
redis_command_remembering_denial(ctx, args) ==
    LET executed(command, executor) ==
            IF ~executor.ok THEN Err(executor.err, [value |-> 0, store |-> ctx.store])
            ELSE execute(command.algorithm, ctx, executor.self, command.tokens)
        parsed(p) ==
            IF ~p.ok THEN Err(p.err, [value |-> 0, store |-> ctx.store])
            ELSE executed(p.command, create_executor(p.command, ctx, p.command.key))
    IN IF reply.status = "ok" /\ reply.value = INSUFFICIENT_TOKENS
       THEN Ok([value |-> INSUFFICIENT_TOKENS, store |-> ctx.store])
       ELSE parsed(parse_command_args(args))

\* redis_command: the reply and the store the command leaves
redis_command(ctx, args) ==
    LET executed(command, executor) ==
            IF ~executor.ok THEN Err(executor.err, [value |-> 0, store |-> ctx.store])
            ELSE execute(command.algorithm, ctx, executor.self, command.tokens)
        parsed(p) ==
            IF ~p.ok THEN Err(p.err, [value |-> 0, store |-> ctx.store])
            ELSE executed(p.command, create_executor(p.command, ctx, p.command.key))
    IN parsed(parse_command_args(args))

-----------------------------------------------------------------------------
(* The store calls a command issues, in the order of the code *)

\* one ctx.call: its name and, for a write, what it writes
StoreCall(name, key, ttl_str, val_str) ==
    [call |-> name, key |-> key, ttl |-> ttl_str, val |-> val_str]

ReadCalls == {"PTTL", "GET", "TIME"}
WriteCalls == {"PSETEX", "SET"}

\* Bucket::fetch_tokens and LeakyBucket::fetch_level: PTTL, then GET unless PTTL failed
fetch_tokens_calls(ctx, key) ==
    <<StoreCall("PTTL", key, <<>>, <<>>)>>
        \o (IF Call_PTTL(ctx, key).ok THEN <<StoreCall("GET", key, <<>>, <<>>)>> ELSE <<>>)

\* FixedWindow::fetch_count: PTTL, then GET when the window is active
fetch_count_calls(ctx, key) ==
    LET fetched(pttl) ==
            IF pttl.ok /\ pttl.ttl > MIN_ACTIVE_TTL_MS
            THEN <<StoreCall("GET", key, <<>>, <<>>)>> ELSE <<>>
    IN <<StoreCall("PTTL", key, <<>>, <<>>)>> \o fetched(Call_PTTL(ctx, key))

\* SlidingWindow::new: TIME, then the GET of load_state unless the time is unavailable
SlidingWindow_new_calls(ctx, key) ==
    <<StoreCall("TIME", "", <<>>, <<>>)>>
        \o (IF current_time_millis(ctx, "time_new").ok
            THEN <<StoreCall("GET", key, <<>>, <<>>)>> ELSE <<>>)

\* create_executor: the calls of the constructor, none when it rejects its arguments
create_executor_calls(cfg, ctx, key) ==
    LET constructed(internal_key) ==
            CASE cfg.algorithm \in {"token_bucket", "leaky_bucket"} ->
                     fetch_tokens_calls(ctx, internal_key)
              [] cfg.algorithm = "fixed_window" -> fetch_count_calls(ctx, internal_key)
              [] cfg.algorithm = "sliding_window" -> SlidingWindow_new_calls(ctx, internal_key)
    IN IF cfg.capacity <= 0 \/ cfg.period <= 0 \/ ~checked_mul(cfg.period, MILLIS_IN_SEC).some
       THEN <<>>
       ELSE constructed(build_key(key, suffix(cfg.algorithm)))

\* Bucket::pour: PSETEX of the tokens left, when the tokens are there
pour_calls(self, tokens) ==
    IF tokens <= 0 \/ tokens > self.tokens THEN <<>>
    ELSE <<StoreCall("PSETEX", self.key, Itoa(self.period), Itoa(self.tokens - tokens))>>

\* LeakyBucket::add: PSETEX of the new level, when the burst fits
add_calls(self, burst) ==
    IF burst <= 0 \/ saturating_add(self.level, burst) > self.capacity THEN <<>>
    ELSE <<StoreCall("PSETEX", self.key, Itoa(self.period),
                     Itoa(min(saturating_add(self.level, burst), self.capacity)))>>

\* FixedWindow::consume and persist_count: SET KEEPTTL in an active window, PSETEX otherwise
FixedWindow_consume_calls(self, tokens) ==
    LET persisted(count_str) ==
            IF self.has_active_window THEN <<StoreCall("SET", self.key, <<>>, count_str)>>
            ELSE <<StoreCall("PSETEX", self.key, Itoa(self.period), count_str)>>
    IN IF tokens <= 0 \/ saturating_add(self.count, tokens) > self.capacity THEN <<>>
       ELSE persisted(Itoa(min(saturating_add(self.count, tokens), self.capacity)))

\* SlidingWindow::consume and persist_state: TIME, then PSETEX of the state when accepted
SlidingWindow_consume_calls(ctx, self, tokens) ==
    LET persisted(aligned) ==
            <<StoreCall("PSETEX", self.key,
                        Itoa(max(saturating_mul(self.period, 2), self.period)),
                        encode_state([aligned EXCEPT !.current_count =
                            min(saturating_add(aligned.current_count, tokens),
                                self.capacity)]))>>
        aligned_to(a) ==
            IF saturating_add(effective_usage(a.self, a.elapsed), tokens) > self.capacity
            THEN <<>> ELSE persisted(a.self)
        timed(now_ms) ==
            IF ~now_ms.ok THEN <<>> ELSE aligned_to(align_to_now(self, now_ms.ms))
    IN IF tokens <= 0 THEN <<>>
       ELSE <<StoreCall("TIME", "", <<>>, <<>>)>>
                \o timed(current_time_millis(ctx, "time_consume"))

\* TrafficPolicyExecutor::execute: the calls of the policy's operation
execute_calls(algorithm, ctx, self, tokens) ==
    CASE algorithm = "token_bucket" -> pour_calls(self, tokens)
      [] algorithm = "leaky_bucket" -> add_calls(self, tokens)
      [] algorithm = "fixed_window" -> FixedWindow_consume_calls(self, tokens)
      [] algorithm = "sliding_window" -> SlidingWindow_consume_calls(ctx, self, tokens)

\* redis_command: the calls of construction, then those of execute if construction
\* succeeded
redis_command_calls(ctx, args) ==
    LET executed(command, executor) ==
            create_executor_calls(command, ctx, command.key)
                \o (IF ~executor.ok THEN <<>>
                    ELSE execute_calls(command.algorithm, ctx, executor.self, command.tokens))
        parsed(p) ==
            IF ~p.ok THEN <<>>
            ELSE executed(p.command, create_executor(p.command, ctx, p.command.key))
    IN parsed(parse_command_args(args))

\* the store after the calls of a trace, issued in order at ctx.now
RECURSIVE Replay(_, _)
Replay(calls, ctx) ==
    LET written(c) ==
            CASE c.call = "PSETEX" -> Call_PSETEX(ctx, c.key, c.ttl, c.val)
              [] c.call = "SET" -> Call_SET_KEEPTTL(ctx, c.key, c.val)
              [] OTHER -> ctx.store
    IN IF calls = <<>> THEN ctx.store
       ELSE Replay(Tail(calls), [ctx EXCEPT !.store = written(calls[1])])

\* the words the parser compares arguments with, as texts
ARG_ALGORITHM_FLAG == <<"A", "L", "G", "O", "R", "I", "T", "H", "M">>
AlgorithmText ==
    [token_bucket |-> <<"t", "o", "k", "e", "n", "_", "b", "u", "c", "k", "e", "t">>,
     leaky_bucket |-> <<"l", "e", "a", "k", "y", "_", "b", "u", "c", "k", "e", "t">>,
     fixed_window |-> <<"f", "i", "x", "e", "d", "_", "w", "i", "n", "d", "o", "w">>,
     sliding_window |-> <<"s", "l", "i", "d", "i", "n", "g", "_", "w", "i", "n", "d", "o", "w">>]

MIN_ARGS_LEN == 4
MAX_ARGS_LEN == 7
ERR_WRONG_ARITY == "ERR wrong number of arguments for 'SHIELD.absorb' command"
ERR_ALGORITHM_VALUE_MISSING == "ERR algorithm value missing"

LowerCase == <<"a", "b", "c", "d", "e", "f", "g", "h", "i", "j", "k", "l", "m", "n", "o", "p", "q", "r", "s", "t", "u", "v", "w", "x", "y", "z">>
UpperCase == <<"A", "B", "C", "D", "E", "F", "G", "H", "I", "J", "K", "L", "M", "N", "O", "P", "Q", "R", "S", "T", "U", "V", "W", "X", "Y", "Z">>

\* the upper-case letter of each lower-case letter
AsciiUpper ==
    [c \in {LowerCase[i] : i \in 1..Len(LowerCase)} |->
        UpperCase[CHOOSE i \in 1..Len(LowerCase) : LowerCase[i] = c]]

\* u8::to_ascii_uppercase
to_ascii_uppercase(c) == IF c \in DOMAIN AsciiUpper THEN AsciiUpper[c] ELSE c

\* str::eq_ignore_ascii_case
eq_ignore_ascii_case(a, b) ==
    /\ Len(a) = Len(b)
    /\ \A i \in 1..Len(a) : to_ascii_uppercase(a[i]) = to_ascii_uppercase(b[i])

\* the policy a text names; a text that names none stays unknown to the policy match
algorithm_named(text) ==
    IF \E a \in Algorithms : AlgorithmText[a] = text
    THEN CHOOSE a \in Algorithms : AlgorithmText[a] = text
    ELSE "unknown"

\* variant of select_arguments that takes any word before the name for the flag
select_arguments_trusting_flag(argv) ==
    LET chosen(algorithm, tokens) ==
            Ok([args |-> [key |-> argv[2], algorithm |-> algorithm_named(algorithm),
                          capacity |-> argv[3], period |-> argv[4], tokens |-> tokens]])
        failed(err) ==
            Err(err, [args |-> [key |-> "", algorithm |-> "unknown", capacity |-> <<>>,
                                period |-> <<>>, tokens |-> <<>>]])
    IN IF Len(argv) < MIN_ARGS_LEN \/ Len(argv) > MAX_ARGS_LEN THEN failed(ERR_WRONG_ARITY)
       ELSE IF Len(argv) = MIN_ARGS_LEN
       THEN chosen(AlgorithmText[DEFAULT_ALGORITHM], Itoa(DEFAULT_TOKENS))
       ELSE IF Len(argv) = 5
       THEN IF eq_ignore_ascii_case(argv[5], ARG_ALGORITHM_FLAG)
            THEN failed(ERR_ALGORITHM_VALUE_MISSING)
            ELSE chosen(AlgorithmText[DEFAULT_ALGORITHM], argv[5])
       ELSE IF Len(argv) = 6
       THEN chosen(argv[6], Itoa(DEFAULT_TOKENS))
       ELSE chosen(argv[7], argv[5])

\* variant of select_arguments that takes the period before the capacity
select_arguments_swapping_limits(argv) ==
    LET chosen(algorithm, tokens) ==
            Ok([args |-> [key |-> argv[2], algorithm |-> algorithm_named(algorithm),
                          capacity |-> argv[4], period |-> argv[3], tokens |-> tokens]])
        failed(err) ==
            Err(err, [args |-> [key |-> "", algorithm |-> "unknown", capacity |-> <<>>,
                                period |-> <<>>, tokens |-> <<>>]])
    IN IF Len(argv) < MIN_ARGS_LEN \/ Len(argv) > MAX_ARGS_LEN THEN failed(ERR_WRONG_ARITY)
       ELSE IF Len(argv) = MIN_ARGS_LEN
       THEN chosen(AlgorithmText[DEFAULT_ALGORITHM], Itoa(DEFAULT_TOKENS))
       ELSE IF Len(argv) = 5
       THEN IF eq_ignore_ascii_case(argv[5], ARG_ALGORITHM_FLAG)
            THEN failed(ERR_ALGORITHM_VALUE_MISSING)
            ELSE chosen(AlgorithmText[DEFAULT_ALGORITHM], argv[5])
       ELSE IF Len(argv) = 6
       THEN IF eq_ignore_ascii_case(argv[5], ARG_ALGORITHM_FLAG)
            THEN chosen(argv[6], Itoa(DEFAULT_TOKENS))
            ELSE IF eq_ignore_ascii_case(argv[6], ARG_ALGORITHM_FLAG)
            THEN failed(ERR_ALGORITHM_VALUE_MISSING)
            ELSE failed(ERR_WRONG_ARITY)
       ELSE IF ~eq_ignore_ascii_case(argv[6], ARG_ALGORITHM_FLAG) THEN failed(ERR_WRONG_ARITY)
       ELSE chosen(argv[7], argv[5])

\* a parser that also takes the units after the ALGORITHM pair
select_arguments_accepting_units_last(argv) ==
    LET chosen(algorithm, tokens) ==
            Ok([args |-> [key |-> argv[2], algorithm |-> algorithm_named(algorithm),
                          capacity |-> argv[3], period |-> argv[4], tokens |-> tokens]])
        failed(err) ==
            Err(err, [args |-> [key |-> "", algorithm |-> "unknown", capacity |-> <<>>,
                                period |-> <<>>, tokens |-> <<>>]])
    IN IF Len(argv) < MIN_ARGS_LEN \/ Len(argv) > MAX_ARGS_LEN THEN failed(ERR_WRONG_ARITY)
       ELSE IF Len(argv) = MIN_ARGS_LEN
       THEN chosen(AlgorithmText[DEFAULT_ALGORITHM], Itoa(DEFAULT_TOKENS))
       ELSE IF Len(argv) = 5
       THEN IF eq_ignore_ascii_case(argv[5], ARG_ALGORITHM_FLAG)
            THEN failed(ERR_ALGORITHM_VALUE_MISSING)
            ELSE chosen(AlgorithmText[DEFAULT_ALGORITHM], argv[5])
       ELSE IF Len(argv) = 6
       THEN IF eq_ignore_ascii_case(argv[5], ARG_ALGORITHM_FLAG)
            THEN chosen(argv[6], Itoa(DEFAULT_TOKENS))
            ELSE IF eq_ignore_ascii_case(argv[6], ARG_ALGORITHM_FLAG)
            THEN failed(ERR_ALGORITHM_VALUE_MISSING)
            ELSE failed(ERR_WRONG_ARITY)
       ELSE IF eq_ignore_ascii_case(argv[5], ARG_ALGORITHM_FLAG) THEN chosen(argv[6], argv[7])
       ELSE IF ~eq_ignore_ascii_case(argv[6], ARG_ALGORITHM_FLAG) THEN failed(ERR_WRONG_ARITY)
       ELSE chosen(argv[7], argv[5])

\* parse_command_args_inner, the choice of units and policy by the number of arguments:
\* argv[1] is the command name, argv[2] the key, argv[3] and argv[4] capacity and period
select_arguments(argv) ==
    LET chosen(algorithm, tokens) ==
            Ok([args |-> [key |-> argv[2], algorithm |-> algorithm_named(algorithm),
                          capacity |-> argv[3], period |-> argv[4], tokens |-> tokens]])
        failed(err) ==
            Err(err, [args |-> [key |-> "", algorithm |-> "unknown", capacity |-> <<>>,
                                period |-> <<>>, tokens |-> <<>>]])
    IN IF Len(argv) < MIN_ARGS_LEN \/ Len(argv) > MAX_ARGS_LEN THEN failed(ERR_WRONG_ARITY)
       ELSE IF Len(argv) = MIN_ARGS_LEN
       THEN chosen(AlgorithmText[DEFAULT_ALGORITHM], Itoa(DEFAULT_TOKENS))
       ELSE IF Len(argv) = 5
       THEN IF eq_ignore_ascii_case(argv[5], ARG_ALGORITHM_FLAG)
            THEN failed(ERR_ALGORITHM_VALUE_MISSING)
            ELSE chosen(AlgorithmText[DEFAULT_ALGORITHM], argv[5])
       ELSE IF Len(argv) = 6
       THEN IF eq_ignore_ascii_case(argv[5], ARG_ALGORITHM_FLAG)
            THEN chosen(argv[6], Itoa(DEFAULT_TOKENS))
            ELSE IF eq_ignore_ascii_case(argv[6], ARG_ALGORITHM_FLAG)
            THEN failed(ERR_ALGORITHM_VALUE_MISSING)
            ELSE failed(ERR_WRONG_ARITY)
       ELSE IF ~eq_ignore_ascii_case(argv[6], ARG_ALGORITHM_FLAG) THEN failed(ERR_WRONG_ARITY)
       ELSE chosen(argv[7], argv[5])

\* parse_command_args_inner: the arguments chosen, then validated
parse_command_args_inner(argv) ==
    LET selected(s) ==
            IF ~s.ok THEN Err(s.err, [command |-> [s.args EXCEPT !.capacity = 0, !.period = 0,
                                                                !.tokens = 0]])
            ELSE parse_command_args(s.args)
    IN selected(select_arguments(argv))

\* SHIELD.absorb as the host calls it, with the argument vector
shield_absorb(ctx, argv) ==
    LET selected(s) ==
            IF ~s.ok THEN Err(s.err, [value |-> 0, store |-> ctx.store])
            ELSE redis_command(ctx, s.args)
    IN selected(select_arguments(argv))

-----------------------------------------------------------------------------
(* Scenarios and inputs *)

\* instants at which the host clock is observed
Instants == {t \in 0..MaxNow : t % Quantum \in {0, Quantum - 2, Quantum - 1}}

NextInstant(t) == CHOOSE u \in Instants : u > t /\ \A w \in Instants : w > t => u <= w

\* a period whose milliseconds do not fit the machine word
PeriodOverflow == I64_MAX \div MILLIS_IN_SEC + 1

ClientKey == build_key(Subject, suffix(client.algorithm))

\* the client keeps one (capacity, period) for the whole run
Pinned == client.capacity > 0

\* well-formed argument lists the client may send
ValidCalls ==
    {[key |-> Subject, algorithm |-> client.algorithm, capacity |-> Itoa(c), period |-> Itoa(p),
      tokens |-> Itoa(u)] :
        c \in (IF Pinned THEN {client.capacity} ELSE 1..MaxCapacity),
        p \in (IF Pinned THEN {client.period} ELSE 1..MaxPeriod),
        u \in 1..(MaxCapacity + 1)}

\* argument lists that validation or construction rejects
InvalidCalls ==
    {[key |-> Subject, algorithm |-> a, capacity |-> c, period |-> p, tokens |-> u] :
        <<a, c, p, u>> \in
            {<<client.algorithm, Itoa(0), Itoa(1), Itoa(1)>>,
             <<client.algorithm, Itoa(1), Itoa(0), Itoa(1)>>,
             <<client.algorithm, Itoa(1), Itoa(1), Itoa(0)>>,
             <<client.algorithm, Itoa(1), Itoa(1), <<"x">>>>,
             <<client.algorithm, Itoa(-2), Itoa(1), Itoa(1)>>,
             <<"unknown", Itoa(1), Itoa(1), Itoa(1)>>,
             <<client.algorithm, Itoa(1), Itoa(PeriodOverflow), Itoa(1)>>}}

\* spellings of the ALGORITHM flag
FlagSpellings ==
    {ARG_ALGORITHM_FLAG,
     <<"a", "l", "g", "o", "r", "i", "t", "h", "m">>,
     <<"A", "l", "g", "o", "R", "i", "t", "h", "M">>}

\* the first four arguments of the client's calls
ArgvHead == <<"SHIELD.absorb", Subject, Itoa(client.capacity), Itoa(client.period)>>

\* argument vectors of the four valid layouts, each with the units and the policy the
\* layout stands for
ValidLayouts ==
    {[argv |-> ArgvHead, units |-> DEFAULT_TOKENS, algorithm |-> DEFAULT_ALGORITHM]}
    \cup {[argv |-> ArgvHead \o <<Itoa(u)>>, units |-> u, algorithm |-> DEFAULT_ALGORITHM] :
              u \in 1..(MaxCapacity + 1)}
    \cup {[argv |-> ArgvHead \o <<f, AlgorithmText[a]>>, units |-> DEFAULT_TOKENS,
           algorithm |-> a] : f \in FlagSpellings, a \in Algorithms}
    \cup {[argv |-> ArgvHead \o <<Itoa(u), f, AlgorithmText[a]>>, units |-> u, algorithm |-> a] :
              u \in 1..(MaxCapacity + 1), f \in FlagSpellings, a \in Algorithms}

\* words that are not the flag: a number, a policy name, another word
NotTheFlag == {Itoa(2), AlgorithmText[client.algorithm], <<"x">>}

\* six arguments whose fifth is not the flag, with any sixth
MisplacedLayouts ==
    {ArgvHead \o <<w, v>> : w \in NotTheFlag, v \in NotTheFlag \cup FlagSpellings}

\* seven arguments whose sixth is not the flag: the units after the ALGORITHM pair, or
\* no flag where it belongs
UnorderedLayouts ==
    {ArgvHead \o <<u, w, v>> :
        u \in NotTheFlag \cup {ARG_ALGORITHM_FLAG}, w \in NotTheFlag,
        v \in NotTheFlag \cup {ARG_ALGORITHM_FLAG, Itoa(DEFAULT_TOKENS)}}

\* argument vectors no layout accepts
RejectedLayouts ==
    MisplacedLayouts
    \cup {SubSeq(ArgvHead, 1, 3),
          ArgvHead \o <<ARG_ALGORITHM_FLAG, AlgorithmText[client.algorithm], Itoa(1)>>,
          ArgvHead \o <<ARG_ALGORITHM_FLAG, <<"x">>>>,
          ArgvHead \o <<Itoa(1), ARG_ALGORITHM_FLAG, AlgorithmText[client.algorithm], Itoa(1)>>}

\* the argument vectors the client sends: those of its own policy for one or two units,
\* and the rejected ones; five arguments are a call of the default policy
ArgLists ==
    {l.argv : l \in {v \in ValidLayouts : v.algorithm = client.algorithm /\ v.units <= 2}}
    \cup RejectedLayouts
    \cup (IF client.algorithm = DEFAULT_ALGORITHM THEN {ArgvHead \o <<ARG_ALGORITHM_FLAG>>}
          ELSE {})

\* the clients that share the key
Clients == 1..NumClients

\* the argument list of a command under way
SentCall(m) ==
    [key |-> Subject, algorithm |-> client.algorithm, capacity |-> Itoa(client.capacity),
     period |-> Itoa(client.period), tokens |-> Itoa(m.tokens)]

\* the policy after this one, in a fixed round
NextAlgorithm(a) ==
    CASE a = "token_bucket" -> "leaky_bucket"
      [] a = "leaky_bucket" -> "fixed_window"
      [] a = "fixed_window" -> "sliding_window"
      [] a = "sliding_window" -> "token_bucket"

\* (policy, subject) pairs that share the store with the client: its own subject under
\* another policy, another subject under its own policy
Neighbours ==
    {[algorithm |-> NextAlgorithm(client.algorithm), subject |-> Subject],
     [algorithm |-> client.algorithm, subject |-> OtherSubject]}

\* the call a neighbour sends: one unit against a capacity of one
NeighbourCall(n) ==
    [key |-> n.subject, algorithm |-> n.algorithm, capacity |-> Itoa(1), period |-> Itoa(1),
     tokens |-> Itoa(DEFAULT_TOKENS)]

\* values an operator may put under the key behind the module's back
RawValues == {Itoa(2), <<"x">>}

NoReply == [status |-> "none", value |-> 0, err |-> ""]
NoHist == [accPeriod |-> 0, openPeriod |-> 0, window |-> 0, log |-> <<>>, left |-> 0, ref |-> 0]

\* an audited token-bucket client is run side by side with an ideal bucket: hist.ref is
\* the ideal bucket's content in units of 1 / period_ms of a token (exact, no rounding),
\* hist.left what the last accepted call returned
Reference == client.audit /\ client.algorithm = "token_bucket"

\* the ideal bucket when full
RefFull == client.capacity * client.period * MILLIS_IN_SEC

\* the ideal bucket after ms milliseconds of refill at capacity / period, capped at capacity
RefRefill(ref, ms) == min(ref + ms * client.capacity, RefFull)

\* accepted units no older than one period, merged per instant
LogAppend(log, t, u) ==
    IF log # <<>> /\ log[Len(log)][1] = t
    THEN [log EXCEPT ![Len(log)] = <<t, @[2] + u>>]
    ELSE Append(log, <<t, u>>)

LogPrune(log, t, period_ms) == SelectSeq(log, LAMBDA e : e[1] >= t - period_ms)

RECURSIVE LogSum(_)
LogSum(log) == IF log = <<>> THEN 0 ELSE log[1][2] + LogSum(Tail(log))

\* the store's own eviction of keys whose expiry has been reached
Expire(st, t) ==
    [k \in DOMAIN st |-> IF st[k].kind # "absent" /\ st[k].exp # NoExpiry /\ st[k].exp <= t
                         THEN Absent ELSE st[k]]

-----------------------------------------------------------------------------
(* Actions *)

Init ==
    /\ now = 0
    /\ store = [k \in Keys |-> Absent]
    /\ client \in [algorithm : Algorithms, capacity : {0}, period : {0}, audit : {FALSE},
                    inflight : {{}}, foreseen : {{}}]
    /\ reply = NoReply
    /\ hist = NoHist

\* the same, for clients that keep one (capacity, period); with audit, the accepted
\* units of the last period are recorded
InitPinned(algorithms, capacities, audit) ==
    /\ now = 0
    /\ store = [k \in Keys |-> Absent]
    /\ client \in [algorithm : algorithms, capacity : capacities, period : 1..MaxPeriod,
                    audit : {audit}, inflight : {{}}, foreseen : {{}}]
    /\ reply = NoReply
    /\ hist = [NoHist EXCEPT !.ref = IF Reference THEN RefFull ELSE 0]

\* what SHIELD.absorb does with these arguments in the current state
Run(args, fault) == redis_command([store |-> store, now |-> now, fault |-> fault], args)

\* one SHIELD.absorb command, run to completion: what it does to the store, the reply
\* and the history
Executed(args, fault) ==
    LET accounted(r, period_ms, tokens, opened) ==
            IF r.ok /\ r.value # INSUFFICIENT_TOKENS
            THEN [accPeriod |-> period_ms,
                  openPeriod |-> IF opened THEN period_ms ELSE hist.openPeriod,
                  window |-> IF ~client.audit THEN 0
                             ELSE IF opened THEN tokens ELSE hist.window + tokens,
                  log |-> IF client.audit THEN LogAppend(hist.log, now, tokens) ELSE <<>>,
                  left |-> IF Reference THEN r.value ELSE 0,
                  ref |-> IF Reference THEN hist.ref - tokens * period_ms ELSE 0]
            ELSE hist
        done(r) ==
            /\ store' = r.store
            /\ reply' = [status |-> IF r.ok THEN "ok" ELSE "err", value |-> r.value,
                         err |-> r.err]
            /\ hist' = accounted(r, ParseI64(args.period).v * MILLIS_IN_SEC,
                                 ParseI64(args.tokens).v,
                                 r.store[ClientKey].exp # store[ClientKey].exp)
            /\ UNCHANGED now
    IN done(Run(args, fault))

\* one SHIELD.absorb command of a client that has nothing else under way
Command(args, fault) == Executed(args, fault) /\ UNCHANGED client

Absorb == \E args \in ValidCalls : Command(args, "none")

AbsorbInvalid == \E args \in InvalidCalls : Command(args, "none")

AbsorbFault ==
    \E args \in ValidCalls, fault \in Faults \ {"none"} :
        /\ ParseI64(args.tokens).v = DEFAULT_TOKENS
        /\ Command(args, fault)

\* one SHIELD.absorb command given as an argument vector
AbsorbArgv ==
    \E argv \in ArgLists :
        LET selected(s) ==
                IF s.ok THEN Command(s.args, "none")
                ELSE /\ reply' = [status |-> "err", value |-> 0, err |-> s.err]
                     /\ UNCHANGED <<now, store, client, hist>>
        IN selected(select_arguments(argv))

\* a client sends a command; the host has not run it yet
Send ==
    \E c \in Clients, u \in 1..client.capacity :
        /\ \A m \in client.inflight : m.id # c
        /\ client' = [client EXCEPT !.inflight = @ \cup {[id |-> c, tokens |-> u]},
                                    !.foreseen = {}]
        /\ reply' = NoReply
        /\ UNCHANGED <<now, store, hist>>

\* the host takes any of the commands under way and runs it to completion
Serve ==
    \E m \in client.inflight :
        /\ Executed(SentCall(m), "none")
        /\ client' = [client EXCEPT !.inflight = @ \ {m}, !.foreseen = {}]

\* what the caller and the store see of a command
Outcome(r) == [ok |-> r.ok, value |-> r.value, err |-> r.err, state |-> r.store[ClientKey]]

\* the module's process is restarted: the commands under way are lost, the store is kept;
\* client.foreseen records what each call would have been answered without the restart
Restart ==
    /\ client' = [client EXCEPT
                      !.inflight = {},
                      !.foreseen = {[at |-> now, args |-> a,
                                     outcome |-> Outcome(Run(a, "none"))] : a \in ValidCalls}]
    /\ reply' = NoReply
    /\ UNCHANGED <<now, store, hist>>

\* a command of a neighbour, another (policy, subject) pair on the same store
AbsorbOther ==
    \E n \in Neighbours :
        /\ store' = redis_command([store |-> store, now |-> now, fault |-> "none"],
                                  NeighbourCall(n)).store
        /\ reply' = NoReply
        /\ UNCHANGED <<now, client, hist>>

\* an operator writes a string under the key, with or without an expiry
OperatorSet ==
    \E v \in RawValues, e \in {NoExpiry, now + MILLIS_IN_SEC} :
        /\ store' = [store EXCEPT ![ClientKey] = StringEntry(v, e)]
        /\ reply' = NoReply
        /\ UNCHANGED <<now, client, hist>>

\* an operator stores a hash under the key
OperatorHSet ==
    /\ store' = [store EXCEPT ![ClientKey] = HashEntry(NoExpiry)]
    /\ reply' = NoReply
    /\ UNCHANGED <<now, client, hist>>

\* an operator deletes the key
OperatorDel ==
    /\ store[ClientKey].kind # "absent"
    /\ store' = [store EXCEPT ![ClientKey] = Absent]
    /\ reply' = NoReply
    /\ UNCHANGED <<now, client, hist>>

\* the host clock advances to t; keys whose expiry has been reached are evicted
Advance(t) ==
    /\ now' = t
    /\ store' = Expire(store, now')
    /\ reply' = NoReply
    /\ hist' = [accPeriod |-> IF store'[ClientKey].kind = "absent" THEN 0 ELSE hist.accPeriod,
                openPeriod |-> IF store'[ClientKey].kind = "absent" THEN 0 ELSE hist.openPeriod,
                window |-> hist.window,
                log |-> LogPrune(hist.log, now', client.period * MILLIS_IN_SEC),
                left |-> hist.left,
                ref |-> IF Reference THEN RefRefill(hist.ref, now' - now) ELSE 0]
    /\ UNCHANGED client

\* the host clock reaches the next instant
Tick ==
    /\ \E t \in Instants : t > now
    /\ Advance(NextInstant(now))

\* the host clock advances by a whole second
TickSecond ==
    /\ now + MILLIS_IN_SEC <= MaxNow
    /\ Advance(now + MILLIS_IN_SEC)

\* valid calls and time steps on a key only the module writes
Next == Absorb \/ Tick

Spec == Init /\ [][Next]_vars

\* every kind of call, on a key an operator may also write
NextOps ==
    \/ Absorb
    \/ AbsorbInvalid
    \/ AbsorbFault
    \/ OperatorSet
    \/ OperatorHSet
    \/ OperatorDel
    \/ Tick

SpecOps == InitPinned(Algorithms, {MaxCapacity}, FALSE) /\ [][NextOps]_vars

\* one policy, one (capacity, period)
SpecTokenBucket == InitPinned({"token_bucket"}, 1..MaxCapacity, TRUE) /\ [][Next]_vars

SpecLeakyBucket == InitPinned({"leaky_bucket"}, 1..MaxCapacity, TRUE) /\ [][Next]_vars

SpecFixedWindow == InitPinned({"fixed_window"}, 1..MaxCapacity, TRUE) /\ [][Next]_vars

SpecSlidingWindow == InitPinned({"sliding_window"}, 1..MaxCapacity, TRUE) /\ [][Next]_vars

\* the sliding window of one capacity, without the record of accepted units
SpecSlidingExpiry == InitPinned({"sliding_window"}, {MaxCapacity}, FALSE) /\ [][Next]_vars

NextCalls == Absorb \/ AbsorbInvalid \/ AbsorbFault \/ OperatorSet \/ TickSecond

\* calls, rejected calls and failing store calls on a key an operator may also set, the
\* clock observed at whole seconds
SpecCalls == InitPinned(Algorithms, 1..MaxCapacity, FALSE) /\ [][NextCalls]_vars

\* the sliding window called at whole seconds
NextSeconds == Absorb \/ TickSecond

SpecSlidingSeconds ==
    InitPinned({"sliding_window"}, 1..MaxCapacity, FALSE) /\ [][NextSeconds]_vars

\* every policy, one (capacity, period), on a key only the module writes
SpecPinned == InitPinned(Algorithms, {MaxCapacity - 1}, FALSE) /\ [][Next]_vars

NextClients == Send \/ Serve \/ Restart \/ TickSecond

\* several clients on one key, their commands run by the host one at a time
SpecClients == InitPinned(Algorithms, {MaxCapacity - 1}, TRUE) /\ [][NextClients]_vars

NextTenants == Absorb \/ AbsorbOther \/ TickSecond

\* the client and its neighbours on one store
SpecTenants == InitPinned(Algorithms, {MaxCapacity - 1}, FALSE) /\ [][NextTenants]_vars

NextArgv == AbsorbArgv \/ Tick

\* commands given as argument vectors of every layout
SpecArgv == InitPinned(Algorithms, {MaxCapacity - 1}, FALSE) /\ [][NextArgv]_vars

\* text "start:cur:prev" of three integers
Payload(start, current, previous) ==
    Itoa(start) \o <<":">> \o Itoa(current) \o <<":">> \o Itoa(previous)

\* sliding-window payloads an operator may put under the key: counts above the capacity,
\* a start in the future, negative fields, a well-formed window, and texts that are no
\* triple
SlidingPayloads ==
    {Payload(0, MaxCapacity + 2, MaxCapacity + 1),
     Payload(MaxNow + MILLIS_IN_SEC, 1, 1),
     Payload(-5, -1, 2),
     Payload(0, 1, MaxCapacity),
     Itoa(1) \o <<":">> \o Itoa(2),
     <<"x">>}

\* an operator writes a sliding-window payload under the key
OperatorPayload ==
    \E v \in SlidingPayloads, e \in {NoExpiry, now + MILLIS_IN_SEC} :
        /\ client.algorithm = "sliding_window"
        /\ store' = [store EXCEPT ![ClientKey] = StringEntry(v, e)]
        /\ reply' = NoReply
        /\ UNCHANGED <<now, client, hist>>

NextSlidingOps == Absorb \/ OperatorPayload \/ Tick

\* the sliding window on a key an operator may also write
SpecSlidingOps == InitPinned({"sliding_window"}, {MaxCapacity}, FALSE) /\ [][NextSlidingOps]_vars

-----------------------------------------------------------------------------
(* Properties *)

\* the numbers a well-formed argument list carries
Units(args) == ParseI64(args.tokens).v
Capacity(args) == ParseI64(args.capacity).v

KeyPresent == store[ClientKey].kind # "absent"
RemainingTtl == store[ClientKey].exp - now
Denied == reply.status = "ok" /\ reply.value = INSUFFICIENT_TOKENS
Accepted == reply.status = "ok" /\ reply.value # INSUFFICIENT_TOKENS

\* accepted units of the last period, the instant one period ago excluded
RecentUnits ==
    LogSum(SelectSeq(hist.log, LAMBDA e : e[1] > now - client.period * MILLIS_IN_SEC))

\* C1: for every policy, after any sequence of valid calls and time steps from an
\* absent key, every successful call returns -1 or an integer in [0, capacity].
C1_ReturnInRange ==
    \A args \in ValidCalls :
        LET in_range(r) ==
                r.ok => r.value = INSUFFICIENT_TOKENS \/ r.value \in 0..Capacity(args)
        IN in_range(Run(args, "none"))

\* C2: for every policy, a call that returns -1 leaves the store unchanged: presence,
\* stored value and expiry (hence remaining TTL, the clock not moving during a call).
C2_DenialLeavesStore ==
    [][(reply'.status = "ok" /\ reply'.value = INSUFFICIENT_TOKENS) => store' = store]_vars

\* a denial on a key that is present, some time after it was written
C2_DeniedOnLiveKey == Denied /\ KeyPresent /\ RemainingTtl < hist.accPeriod

\* C3: every command that ends in an error (validation, period overflow, undecodable
\* stored value, wrong key type, time-source failure, store read failure) leaves every
\* key of the store unchanged.
C3_ErrorLeavesStore ==
    [][reply'.status = "err" => store' = store]_vars

\* an error raised by a stored value that does not decode, the key still in place
C3_ErrorOnUndecodableValue ==
    /\ reply.status = "err"
    /\ reply.err \in {ERR_INVALID_TOKEN_COUNT, ERR_INVALID_LEVEL, ERR_INVALID_COUNTER}
    /\ store[ClientKey].kind = "string"

\* C4: for every policy, when the key is absent a call with units u is accepted if and
\* only if u <= capacity, and when accepted it returns capacity - u.
C4_AbsentKeyIsFresh ==
    ~KeyPresent =>
        \A args \in ValidCalls :
            LET fresh(r) ==
                    /\ r.ok
                    /\ r.value # INSUFFICIENT_TOKENS <=> Units(args) <= Capacity(args)
                    /\ r.value # INSUFFICIENT_TOKENS => r.value = Capacity(args) - Units(args)
            IN fresh(Run(args, "none"))

\* C5: for token bucket, leaky bucket and fixed window, every value an accepted call
\* writes to the key is an integer v with 0 <= v <= capacity of that call.
C5_WrittenValueInRange ==
    client.algorithm \in {"token_bucket", "leaky_bucket", "fixed_window"} =>
        \A args \in ValidCalls :
            LET bounded(v) == v.some /\ v.v \in 0..Capacity(args)
                written(r) ==
                    (r.ok /\ r.value # INSUFFICIENT_TOKENS) =>
                        bounded(ParseI64(r.store[ClientKey].val))
            IN written(Run(args, "none"))

\* C6 as stated: whenever the key is present it has an expiry and its remaining TTL is
\* in (0, period_ms] (sliding window: (0, 2*period_ms]), period_ms that of the most
\* recent accepted call.
C6_TtlWithinLastPeriod ==
    KeyPresent =>
        /\ store[ClientKey].exp # NoExpiry
        /\ RemainingTtl > 0
        /\ RemainingTtl <= (IF client.algorithm = "sliding_window" THEN 2 ELSE 1) * hist.accPeriod

\* C6 amended: the same, except that for fixed window period_ms is that of the accepted
\* call that set the key's expiry (the call that opened the current window).
C6_TtlWithinSettingPeriod ==
    KeyPresent =>
        /\ store[ClientKey].exp # NoExpiry
        /\ RemainingTtl > 0
        /\ RemainingTtl <= CASE client.algorithm = "sliding_window" -> 2 * hist.accPeriod
                             [] client.algorithm = "fixed_window" -> hist.openPeriod
                             [] OTHER -> hist.accPeriod

\* a fixed window that outlives the period of the most recent accepted call
C6_WindowOutlivesLastPeriod ==
    /\ client.algorithm = "fixed_window"
    /\ Accepted
    /\ KeyPresent
    /\ hist.accPeriod < hist.openPeriod
    /\ RemainingTtl > hist.accPeriod

\* C7: leaky bucket, one (capacity, period): the units accepted within any interval of
\* length period sum to at most capacity.
C7_LeakyUnitsPerPeriod ==
    client.algorithm = "leaky_bucket" => LogSum(hist.log) <= client.capacity

\* C8 as stated: fixed window, one (capacity, period): the units accepted within any
\* interval of length period sum to at most capacity.
C8_FixedWindowUnitsPerPeriod ==
    client.algorithm = "fixed_window" => LogSum(hist.log) <= client.capacity

\* C8 amended: the units accepted since the key's expiry was last set (within one stored
\* window) sum to at most capacity, and the units accepted within any interval shorter
\* than period sum to at most 2 * capacity.
C8_FixedWindowBounds ==
    client.algorithm = "fixed_window" =>
        /\ hist.window <= client.capacity
        /\ RecentUnits <= 2 * client.capacity

\* two full windows within less than one period
C8_TwoWindowsWithinPeriod ==
    /\ client.algorithm = "fixed_window"
    /\ Accepted
    /\ hist.window = client.capacity
    /\ RecentUnits = 2 * client.capacity

\* C9 as stated: sliding window, one (capacity, period): the units accepted within any
\* interval of length period sum to at most capacity.
C9_SlidingUnitsPerPeriod ==
    client.algorithm = "sliding_window" => LogSum(hist.log) <= client.capacity

\* C9 amended: the units accepted within any interval of length period sum to at most
\* 2 * capacity.
C9_SlidingTwiceCapacity ==
    client.algorithm = "sliding_window" => LogSum(hist.log) <= 2 * client.capacity

\* more than capacity accepted within one period, the previous window weighted to zero
C9_MoreThanCapacityWithinPeriod ==
    /\ client.algorithm = "sliding_window"
    /\ Accepted
    /\ LogSum(hist.log) > client.capacity

\* C10: for every policy and every reachable store state, a call whose units exceed
\* capacity is denied with -1.
C10_OverCapacityDenied ==
    \A args \in ValidCalls :
        LET denied(r) == r.ok /\ r.value = INSUFFICIENT_TOKENS
        IN Units(args) > Capacity(args) => denied(Run(args, "none"))

\* C11: token bucket, from an absent key and with no time passing: a call is accepted
\* if and only if the units accepted so far plus its own are at most capacity; accepted,
\* it returns capacity minus that total; otherwise it returns -1.
C11_BurstIsCumulative ==
    (client.algorithm = "token_bucket" /\ now = 0) =>
        \A args \in ValidCalls :
            LET cumulative(r, total) ==
                    /\ r.ok
                    /\ r.value = IF total <= client.capacity
                                 THEN client.capacity - total ELSE INSUFFICIENT_TOKENS
            IN cumulative(Run(args, "none"), LogSum(hist.log) + Units(args))

\* a denial in the first instant, after part of the capacity has been accepted
C11_DeniedAfterPartialUse ==
    /\ client.algorithm = "token_bucket"
    /\ now = 0
    /\ Denied
    /\ LogSum(hist.log) \in 1..(client.capacity - 1)

\* the tokens a call of the pinned token-bucket client finds available: what construction
\* computes from the stored value and the key's TTL
TokensSeen ==
    Bucket_new([store |-> store, now |-> now, fault |-> "none"], ClientKey,
               client.capacity, client.period).self.tokens

\* time of the last accepted call still on record
LastAccept == hist.log[Len(hist.log)][1]

\* C12: token bucket refill: if the last accepted call left b tokens and e milliseconds
\* have passed since with no accepted call, the next call with the same (C, T) sees
\* min(C, b + floor(min(e, T_ms) * C / T_ms)) tokens; with no accepted call within the
\* last period (or none at all) it sees a full bucket.
C12_RefillFromLastAccept ==
    client.algorithm = "token_bucket" =>
        TokensSeen =
            IF hist.log = <<>> THEN client.capacity
            ELSE min(client.capacity,
                     hist.left + (min(now - LastAccept, client.period * MILLIS_IN_SEC)
                                  * client.capacity) \div (client.period * MILLIS_IN_SEC))

\* part of the period has passed since the last accepted call: some tokens are back,
\* not all of them
C12_PartialRefill ==
    /\ client.algorithm = "token_bucket"
    /\ hist.log # <<>>
    /\ now > LastAccept
    /\ hist.left < TokensSeen
    /\ TokensSeen < client.capacity

\* C13: every accepted token-bucket or leaky-bucket call leaves the key with a TTL of
\* exactly period_ms, whatever the key's TTL was before (absent and no-expiry included).
C13_AcceptedWriteSetsFreshTtl ==
    [][(/\ client.algorithm \in {"token_bucket", "leaky_bucket"}
        /\ reply'.status = "ok"
        /\ reply'.value # INSUFFICIENT_TOKENS)
       => /\ store'[ClientKey].kind = "string"
          /\ store'[ClientKey].exp = now + client.period * MILLIS_IN_SEC]_vars

\* a key without expiry on which a call is accepted and sets the TTL
C13_NoExpiryKeyGetsFreshTtl ==
    /\ client.algorithm \in {"token_bucket", "leaky_bucket"}
    /\ store[ClientKey].kind = "string"
    /\ store[ClientKey].exp = NoExpiry
    /\ \E args \in ValidCalls :
           LET fresh(r) ==
                   /\ r.ok
                   /\ r.value # INSUFFICIENT_TOKENS
                   /\ r.store[ClientKey].exp = now + client.period * MILLIS_IN_SEC
           IN fresh(Run(args, "none"))

\* C14: token bucket never over-accepts relative to an ideal bucket that starts full,
\* refills continuously at capacity / period (exactly, capped at capacity) and is debited
\* by the same accepted calls: the tokens a call finds are at most the ideal bucket's, so
\* the ideal bucket never goes below zero.
C14_NeverAboveIdeal ==
    Reference =>
        /\ TokensSeen * client.period * MILLIS_IN_SEC <= hist.ref
        /\ hist.ref >= 0

\* an accepted call after which the implementation holds strictly less than the ideal
\* bucket: the fraction of a token that rounding and the restarted TTL gave up
C14_BelowIdealAfterAccept ==
    /\ Reference
    /\ Accepted
    /\ now > 0
    /\ TokensSeen * client.period * MILLIS_IN_SEC < hist.ref

\* a token-bucket key that holds an integer and has no expiry
StoredWithoutExpiry ==
    /\ client.algorithm = "token_bucket"
    /\ store[ClientKey].kind = "string"
    /\ store[ClientKey].exp = NoExpiry
    /\ ParseI64(store[ClientKey].val).some

StoredTokens == ParseI64(store[ClientKey].val).v

\* C15, as stated: token bucket, key with a stored integer and no expiry: construction
\* adds no refill and uses the stored value as the available tokens.
C15_NoExpiryUsesStoredValue ==
    StoredWithoutExpiry => TokensSeen = max(StoredTokens, MIN_TOKENS)

\* C15, amended: token bucket, key with a stored integer and no expiry: construction
\* clamps the TTL of -1 to 0, takes the whole period as elapsed and adds a full refill,
\* so the available tokens are the capacity whatever the stored value.
C15_NoExpiryRefillsInFull ==
    StoredWithoutExpiry => TokensSeen = client.capacity

\* a key without expiry storing less than the capacity, found full by construction
C15_NoExpiryBelowCapacityFoundFull ==
    /\ StoredWithoutExpiry
    /\ StoredTokens < client.capacity
    /\ TokensSeen = client.capacity

\* the call with the default number of tokens
DefaultCalls == {args \in ValidCalls : Units(args) = DEFAULT_TOKENS}

\* C16: token bucket, key with a stored integer below capacity and no expiry: a default
\* call (1 unit) returns capacity - 1 and its write gives the key a TTL of period_ms.
C16_NoExpiryDefaultCall ==
    (StoredWithoutExpiry /\ StoredTokens < client.capacity) =>
        \A args \in DefaultCalls :
            LET full(r) ==
                    /\ r.ok
                    /\ r.value = client.capacity - DEFAULT_TOKENS
                    /\ r.store[ClientKey].kind = "string"
                    /\ r.store[ClientKey].val = Itoa(client.capacity - DEFAULT_TOKENS)
                    /\ r.store[ClientKey].exp = now + client.period * MILLIS_IN_SEC
            IN full(Run(args, "none"))

\* a default call on a key without expiry that returns more than the key stored
C16_DefaultCallReturnsAboveStored ==
    /\ StoredWithoutExpiry
    /\ StoredTokens < client.capacity
    /\ \E args \in DefaultCalls :
           LET above(r) == r.ok /\ r.value >= StoredTokens /\ r.value = client.capacity - 1
           IN above(Run(args, "none"))

\* C17: leaky bucket: from an absent key an accepted call of u <= capacity units returns
\* capacity - u; an immediate further burst b with u + b > capacity is denied; and once
\* a full period has passed with no accepted call, a burst of exactly capacity units is
\* accepted and returns 0.
C17_LeakyBurstThenDrain ==
    client.algorithm = "leaky_bucket" =>
        \A args \in ValidCalls :
            LET headroom(r) ==
                    /\ (~KeyPresent /\ Units(args) <= client.capacity)
                           => r.ok /\ r.value = client.capacity - Units(args)
                    /\ (now = 0 /\ LogSum(hist.log) \in 1..client.capacity
                            /\ LogSum(hist.log) + Units(args) > client.capacity)
                           => r.ok /\ r.value = OVERFLOW
                    /\ ((hist.log = <<>> \/ now - LastAccept >= client.period * MILLIS_IN_SEC)
                            /\ Units(args) = client.capacity)
                           => r.ok /\ r.value = MIN_LEVEL
            IN headroom(Run(args, "none"))

\* the key holds a window whose TTL is above the threshold of a fresh window
ActiveWindow == KeyPresent /\ RemainingTtl > MIN_ACTIVE_TTL_MS

\* C18: fixed window: within one active window (TTL above the 1 ms threshold) a call is
\* accepted if and only if the units accepted in the window plus its own are at most
\* capacity, and then returns capacity minus that sum; once the TTL has run out the
\* count is 0 again, so a call is accepted iff u <= capacity and returns capacity - u.
C18_WindowCountIsCumulative ==
    client.algorithm = "fixed_window" =>
        \A args \in ValidCalls :
            LET cumulative(r, total) ==
                    /\ r.ok
                    /\ r.value = IF total <= client.capacity
                                 THEN client.capacity - total ELSE INSUFFICIENT_CAPACITY
            IN cumulative(Run(args, "none"),
                          (IF ActiveWindow THEN hist.window ELSE MIN_COUNT) + Units(args))

\* an active window filled to capacity by more than one accepted call
C18_WindowFilledBySeveralCalls ==
    /\ client.algorithm = "fixed_window"
    /\ ActiveWindow
    /\ Accepted
    /\ reply.value = 0
    /\ hist.window = client.capacity
    /\ hist.log[Len(hist.log)][2] < hist.window

\* C19: fixed window: an accepted call inside an active window leaves the key's expiry
\* as it was, so the window ends period_ms after the call that created it however many
\* calls it accepts; only an accepted call that finds no active window sets the expiry,
\* to period_ms from now.
C19_ActiveWindowKeepsTtl ==
    [][(client.algorithm = "fixed_window" /\ reply'.status = "ok"
            /\ reply'.value # INSUFFICIENT_CAPACITY)
       => /\ store'[ClientKey].kind = "string"
          /\ store'[ClientKey].exp = IF ActiveWindow THEN store[ClientKey].exp
                                     ELSE now + hist'.accPeriod]_vars

\* after an accepted call the key has less than the window's period to live
C19_AcceptedLateInWindow ==
    /\ client.algorithm = "fixed_window"
    /\ Accepted
    /\ now > 0
    /\ ActiveWindow
    /\ RemainingTtl < hist.openPeriod

\* the window the stored payload describes once aligned to the host time: a missing or
\* undecodable payload is an empty window starting now; after one whole window the
\* current count becomes the previous one, after two or more both are dropped
AlignedWindow ==
    LET T == client.period * MILLIS_IN_SEC
        empty == [elapsed |-> 0, current |-> MIN_COUNT, previous |-> MIN_COUNT]
        slid(start, current, previous) ==
            IF now - start < T
            THEN [elapsed |-> now - start, current |-> current, previous |-> previous]
            ELSE [elapsed |-> (now - start) % T, current |-> MIN_COUNT,
                  previous |-> IF (now - start) \div T = 1 THEN current ELSE MIN_COUNT]
        decoded(d) ==
            IF ~d.some THEN empty
            ELSE slid(min(max(d.start, 0), now),
                      min(max(d.current, MIN_COUNT), client.capacity),
                      min(max(d.previous, MIN_COUNT), client.capacity))
    IN IF store[ClientKey].kind # "string" THEN empty
       ELSE decoded(decode_state(store[ClientKey].val))

\* the previous window's count weighted by the share of it the trailing period covers
WeightedPrevious ==
    LET weighted(w, T) == (w.previous * (T - w.elapsed)) \div T
    IN weighted(AlignedWindow, client.period * MILLIS_IN_SEC)

Usage == min(client.capacity, AlignedWindow.current + WeightedPrevious)

\* C20: sliding window: a call is accepted if and only if usage + units <= capacity,
\* with usage = min(capacity, current_count + floor(previous_count * (T - elapsed) / T))
\* on the window aligned to the host time; an accepted call returns
\* max(0, capacity - usage - units), which on a fresh key is capacity - units.
C20_SlidingUsageDecides ==
    client.algorithm = "sliding_window" =>
        \A args \in ValidCalls :
            LET decided(r, usage) ==
                    /\ r.ok
                    /\ r.value = IF usage + Units(args) <= client.capacity
                                 THEN max(0, client.capacity - usage - Units(args))
                                 ELSE INSUFFICIENT_CAPACITY
                    /\ (~KeyPresent /\ Units(args) <= client.capacity)
                           => r.value = client.capacity - Units(args)
            IN decided(Run(args, "none"), Usage)

\* the previous window still weighs on the usage and decides a call: what fits beside
\* the current count alone is denied
C20_PreviousWindowDenies ==
    /\ client.algorithm = "sliding_window"
    /\ WeightedPrevious > 0
    /\ Usage < client.capacity
    /\ \E args \in ValidCalls :
           /\ AlignedWindow.current + Units(args) <= client.capacity
           /\ Run(args, "none").value = INSUFFICIENT_CAPACITY

\* field values at the ends of the machine word and around a change of digit count
FieldSamples == {0, 9, 10, I64_MAX}

\* the fields of a sliding window, as encode_state reads them
WindowFields(start, current, previous) ==
    [key |-> ClientKey, capacity |-> I64_MAX, period |-> MILLIS_IN_SEC,
     current_start |-> start, current_count |-> current, previous_count |-> previous]

\* C23: sliding-window state round-trips: for every triple (start_ms, current, previous)
\* of non-negative machine integers, decoding the encoded text "start:cur:prev" yields
\* the same three fields.
C23_StateRoundTrips ==
    \A start \in FieldSamples, current \in FieldSamples, previous \in FieldSamples :
        decode_state(encode_state(WindowFields(start, current, previous)))
            = [some |-> TRUE, start |-> start, current |-> current, previous |-> previous]

\* a payload the module persisted, with both counts in use, that decodes to the fields
\* it was encoded from
C23_PersistedPayloadDecodes ==
    /\ client.algorithm = "sliding_window"
    /\ store[ClientKey].kind = "string"
    /\ LET stored(d) ==
               /\ d.some
               /\ d.start > 0
               /\ d.current > 0
               /\ d.previous > d.current
               /\ encode_state(WindowFields(d.start, d.current, d.previous))
                      = store[ClientKey].val
       IN stored(decode_state(store[ClientKey].val))

\* the fields of a sliding window are within their ranges at the host time
FieldsInRange(start, current, previous) ==
    /\ 0 <= start /\ start <= now
    /\ 0 <= current /\ current <= client.capacity
    /\ 0 <= previous /\ previous <= client.capacity

\* the window SlidingWindow::new builds from the key
WindowSeen ==
    SlidingWindow_new([store |-> store, now |-> now, fault |-> "none"], ClientKey,
                      client.capacity, client.period)

\* C21: sliding window: every in-memory state after construction and every state the
\* module persists has 0 <= current_start <= now_ms, 0 <= current_count <= capacity and
\* 0 <= previous_count <= capacity, whatever payload is stored (out-of-range or
\* future-dated fields included) and whatever calls came before.
C21_WindowFieldsInRange ==
    client.algorithm = "sliding_window" =>
        /\ LET built(w) ==
                   w.ok => FieldsInRange(w.self.current_start, w.self.current_count,
                                         w.self.previous_count)
           IN built(WindowSeen)
        /\ \A args \in ValidCalls :
               LET persisted(r, d) ==
                       (r.ok /\ r.value # INSUFFICIENT_CAPACITY) =>
                           d.some /\ FieldsInRange(d.start, d.current, d.previous)
                   ran(r) == persisted(r, decode_state(r.store[ClientKey].val))
               IN ran(Run(args, "none"))

\* a stored payload with fields out of range, and a call on it that is accepted
C21_OutOfRangePayloadAccepted ==
    /\ client.algorithm = "sliding_window"
    /\ store[ClientKey].kind = "string"
    /\ LET stored(d) == d.some /\ ~FieldsInRange(d.start, d.current, d.previous)
       IN stored(decode_state(store[ClientKey].val))
    /\ \E args \in ValidCalls : Run(args, "none").value \in 0..client.capacity

\* the sliding-window key holds a string that is no "start:cur:prev" triple
UndecodablePayload ==
    /\ client.algorithm = "sliding_window"
    /\ store[ClientKey].kind = "string"
    /\ ~decode_state(store[ClientKey].val).some

\* C26, as stated: sliding window: when the stored payload is not a valid triple the
\* command fails with an error and leaves the key as it is, never resetting the counters.
C26_UndecodablePayloadFails ==
    UndecodablePayload =>
        \A args \in ValidCalls :
            LET failed(r) == ~r.ok /\ r.store = store
            IN failed(Run(args, "none"))

\* C26, amended: sliding window: when the stored payload is not a valid triple the
\* command does not fail: it takes the key for an empty window starting now, so a call
\* of u units is accepted iff u <= capacity, returns capacity - u and overwrites the
\* payload with "now:u:0".
C26_UndecodablePayloadResets ==
    UndecodablePayload =>
        \A args \in ValidCalls :
            LET reset(r) ==
                    /\ r.ok
                    /\ r.value = IF Units(args) <= client.capacity
                                 THEN client.capacity - Units(args)
                                 ELSE INSUFFICIENT_CAPACITY
                    /\ r.value # INSUFFICIENT_CAPACITY =>
                           r.store[ClientKey].val = Payload(now, Units(args), MIN_COUNT)
            IN reset(Run(args, "none"))

\* an undecodable payload on which a call for the whole capacity is accepted
C26_FullCapacityOnUndecodablePayload ==
    /\ UndecodablePayload
    /\ now > 0
    /\ \E args \in ValidCalls :
           /\ Units(args) = client.capacity
           /\ Run(args, "none").value = 0

\* what SHIELD.absorb does with these arguments on store st at host time t
RunAt(st, t, args) == redis_command([store |-> st, now |-> t, fault |-> "none"], args)

\* the window SlidingWindow::new would build at host time t if the key were still there
WindowKeptUntil(t) ==
    SlidingWindow_new([store |-> store, now |-> t, fault |-> "none"], ClientKey,
                      client.capacity, client.period).self

\* times from the key's expiry on: the expiry itself, just after, one period later
TimesAfterExpiry ==
    {store[ClientKey].exp + d : d \in {0, 1, client.period * MILLIS_IN_SEC}}

\* C22: sliding window: the TTL of 2 * period never discards a count that still matters:
\* at any time from the key's expiry on, aligning the persisted state to that time gives
\* current_count = 0 and previous_count = 0, so a call gets the same decision whether
\* the key has expired or survived.
C22_ExpiryDiscardsNothing ==
    (client.algorithm = "sliding_window" /\ KeyPresent) =>
        \A t \in TimesAfterExpiry :
            /\ LET dropped(w) == w.current_count = 0 /\ w.previous_count = 0
               IN dropped(WindowKeptUntil(t))
            /\ \A args \in ValidCalls :
                   RunAt(store, t, args).value = RunAt(Expire(store, t), t, args).value

\* a key whose window counts in both halves decide calls now, and on which a call for
\* the whole capacity is accepted at its expiry
C22_CountsThatMatterExpire ==
    /\ client.algorithm = "sliding_window"
    /\ KeyPresent
    /\ AlignedWindow.current > 0
    /\ WeightedPrevious > 0
    /\ \E args \in ValidCalls :
           /\ Units(args) = client.capacity
           /\ RunAt(Expire(store, store[ClientKey].exp), store[ClientKey].exp, args).value = 0

\* the key of a token bucket, leaky bucket or fixed window holds a string that is no
\* decimal integer
UndecodableNumber ==
    /\ client.algorithm \in {"token_bucket", "leaky_bucket", "fixed_window"}
    /\ store[ClientKey].kind = "string"
    /\ ~ParseI64(store[ClientKey].val).some

\* the decode error of each policy
DecodeError ==
    CASE client.algorithm = "token_bucket" -> ERR_INVALID_TOKEN_COUNT
      [] client.algorithm = "leaky_bucket" -> ERR_INVALID_LEVEL
      [] client.algorithm = "fixed_window" -> ERR_INVALID_COUNTER

\* the fixed window reads the stored value only when PTTL is above the threshold
ValueIsRead ==
    client.algorithm = "fixed_window" =>
        (store[ClientKey].exp # NoExpiry /\ RemainingTtl > MIN_ACTIVE_TTL_MS)

\* C25, as stated: token bucket, leaky bucket, fixed window: whenever the key holds a
\* string that is no decimal integer the command fails with the policy's decode error
\* and leaves the key unchanged, whatever the key's TTL state.
C25_UndecodableNumberFails ==
    UndecodableNumber =>
        \A args \in ValidCalls :
            LET failed(r) == ~r.ok /\ r.err = DecodeError /\ r.store = store
            IN failed(Run(args, "none"))

\* C25, amended: token bucket and leaky bucket: as stated. Fixed window: the command
\* fails with the decode error, key unchanged, only when the key's TTL is above the 1 ms
\* threshold; without expiry or at the threshold the value is not read: the call is
\* decided as on a fresh window and an accepted call overwrites the value.
C25_UndecodableNumberFailsWhenRead ==
    UndecodableNumber =>
        \A args \in ValidCalls :
            LET failed(r) == ~r.ok /\ r.err = DecodeError /\ r.store = store
                fresh(r) ==
                    /\ r.ok
                    /\ r.value = IF Units(args) <= client.capacity
                                 THEN client.capacity - Units(args)
                                 ELSE INSUFFICIENT_CAPACITY
                    /\ r.value # INSUFFICIENT_CAPACITY =>
                           r.store[ClientKey] = StringEntry(Itoa(Units(args)),
                                                            now + client.period * MILLIS_IN_SEC)
                settled(r) == IF ValueIsRead THEN failed(r) ELSE fresh(r)
            IN settled(Run(args, "none"))

\* a fixed-window key without expiry holding an undecodable string, on which a call is
\* accepted
C25_UnreadValueOverwritten ==
    /\ UndecodableNumber
    /\ client.algorithm = "fixed_window"
    /\ store[ClientKey].exp = NoExpiry
    /\ \E args \in ValidCalls : Run(args, "none").value \in 0..client.capacity

\* C29: argument parsing of valid layouts: 4 arguments give units 1 and token bucket;
\* 5 give arg[4] as units and token bucket; 6 with arg[4] = ALGORITHM give units 1 and
\* the named policy; 7 give arg[4] as units and arg[6] as the policy; capacity and period
\* are always taken from arg[2] and arg[3].
C29_ValidLayoutsParse ==
    \A l \in ValidLayouts :
        parse_command_args_inner(l.argv)
            = Ok([command |-> [key |-> Subject, algorithm |-> l.algorithm,
                               capacity |-> client.capacity, period |-> client.period,
                               tokens |-> l.units]])

\* a call of seven arguments, two units under a named policy, has been accepted
C29_SevenArgumentsAccepted ==
    /\ client.algorithm = "fixed_window"
    /\ client.period > 1
    /\ Accepted
    /\ now = 0
    /\ reply.value = client.capacity - 2
    /\ store[ClientKey] = StringEntry(Itoa(2), client.period * MILLIS_IN_SEC)
    /\ \E l \in ValidLayouts :
           /\ Len(l.argv) = MAX_ARGS_LEN
           /\ parse_command_args_inner(l.argv).command.tokens = 2
           /\ parse_command_args_inner(l.argv).command.algorithm = client.algorithm
           /\ parse_command_args_inner(l.argv).command.period = client.period

\* C30, as stated: with 6 arguments, every layout in which arg[4] is not the literal
\* ALGORITHM (case-insensitive) is rejected with the wrong-arity error, whatever arg[5].
C30_MisplacedIsWrongArity ==
    \A argv \in MisplacedLayouts :
        LET rejected(p) == ~p.ok /\ p.err = ERR_WRONG_ARITY
        IN rejected(parse_command_args_inner(argv))

\* C30, amended: with 6 arguments, every layout in which arg[4] is not the literal
\* ALGORITHM (case-insensitive) is rejected: with the error "algorithm value missing"
\* when arg[5] is the literal ALGORITHM (case-insensitive), with the wrong-arity error
\* otherwise; the store is left as it is.
C30_MisplacedIsRejected ==
    \A argv \in MisplacedLayouts :
        LET rejected(p, r) ==
                /\ ~p.ok
                /\ p.err = IF eq_ignore_ascii_case(argv[6], ARG_ALGORITHM_FLAG)
                           THEN ERR_ALGORITHM_VALUE_MISSING ELSE ERR_WRONG_ARITY
                /\ ~r.ok /\ r.err = p.err /\ r.store = store
        IN rejected(parse_command_args_inner(argv),
                    shield_absorb([store |-> store, now |-> now, fault |-> "none"], argv))

\* a call of six arguments ending in the flag was rejected on a live key
C30_FlagWithoutValueRejected ==
    /\ client.algorithm # DEFAULT_ALGORITHM
    /\ KeyPresent
    /\ reply.status = "err"
    /\ reply.err = ERR_ALGORITHM_VALUE_MISSING

\* the storage key of a (policy, subject) pair
TenantKey(n) == build_key(n.subject, suffix(n.algorithm))

\* every (policy, subject) pair
Tenants == [algorithm : Algorithms, subject : Subjects]

\* the store with every key but k absent
OnlyKey(st, k) == [j \in DOMAIN st |-> IF j = k THEN st[j] ELSE Absent]

\* the step is a command of the client, or a command of a neighbour
ClientStep == reply'.status # "none"
NeighbourStep == reply'.status = "none" /\ now' = now

\* C24: namespacing: a command for subject K under policy P reads and writes only the
\* key tp:<suffix(P)>:K; two different (policy, subject) pairs never map to the same
\* storage key, so a call under one policy or subject never changes the state or the
\* decisions of another.
C24_TenantsAreIsolated ==
    /\ \A m \in Tenants, n \in Tenants : m # n => TenantKey(m) # TenantKey(n)
    /\ [](\A args \in ValidCalls :
              LET alone(r, q) ==
                      /\ r.ok = q.ok /\ r.value = q.value
                      /\ r.store[ClientKey] = q.store[ClientKey]
                      /\ \A k \in Keys \ {ClientKey} : r.store[k] = store[k]
              IN alone(Run(args, "none"), RunAt(OnlyKey(store, ClientKey), now, args)))
    /\ [][
          /\ ClientStep =>
                 (/\ \A k \in Keys \ {ClientKey} : store'[k] = store[k]
                  /\ \A n \in Neighbours :
                         RunAt(store', now, NeighbourCall(n)).value
                             = RunAt(store, now, NeighbourCall(n)).value)
          /\ NeighbourStep =>
                 (/\ store'[ClientKey] = store[ClientKey]
                  /\ \A args \in ValidCalls :
                         RunAt(store', now, args).value = RunAt(store, now, args).value)
       ]_vars

\* the client is denied while both neighbours hold fresh state of their own
C24_DeniedBesideLiveNeighbours ==
    /\ Denied
    /\ KeyPresent
    /\ \A n \in Neighbours :
           /\ store[TenantKey(n)].kind = "string"
           /\ RunAt(store, now, NeighbourCall(n)).value = -1

\* the units the key can still take at time t in store st: the largest call that would be
\* accepted (0 when none is)
AvailableIn(st, t) ==
    LET fits(u) == RunAt(st, t, SentCall([id |-> 0, tokens |-> u])).value
                       \notin {INSUFFICIENT_TOKENS}
        largest(s) == IF s = {} THEN 0 ELSE CHOOSE u \in s : \A v \in s : v <= u
    IN largest({u \in 1..(2 * client.capacity + 1) : fits(u)})

Available == AvailableIn(store, now)

\* C27: commands of several clients on one key run one at a time in any order, each on
\* the state the last accepted one wrote: an accepted command takes exactly its units from
\* what the key can still take, a command is denied only when its units do not fit and
\* then writes nothing, sending a command or restarting writes nothing, and at the first
\* instant the units accepted so far and the units still available add up to what was
\* available at the start.
C27_NoLostUpdate ==
    /\ [](now = 0 => LogSum(hist.log) + Available
                         = AvailableIn([k \in Keys |-> Absent], 0))
    /\ [][
          now' = now =>
              (/\ reply'.status = "none" => store' = store
               /\ reply'.status # "none" =>
                      (\A m \in client.inflight \ client'.inflight :
                           IF reply'.status = "ok" /\ reply'.value # INSUFFICIENT_TOKENS
                           THEN /\ m.tokens <= Available
                                /\ AvailableIn(store', now) = Available - m.tokens
                           ELSE /\ m.tokens > Available
                                /\ store' = store))
       ]_vars

\* a step that restarts the module's process
RestartStep == now' = now /\ client'.foreseen # {}

C31_UnitsMustPrecedePair ==
    \A argv \in UnorderedLayouts :
        LET rejected(p, r) ==
                /\ ~p.ok /\ p.err = ERR_WRONG_ARITY
                /\ ~r.ok /\ r.err = ERR_WRONG_ARITY /\ r.store = store
        IN rejected(parse_command_args_inner(argv),
                    shield_absorb([store |-> store, now |-> now, fault |-> "none"], argv))

\* a call "ALGORITHM name units" of the client's own policy was rejected on a live key
C31_PairBeforeUnitsRejected ==
    /\ KeyPresent
    /\ reply.status = "err"
    /\ reply.err = ERR_WRONG_ARITY
    /\ ArgvHead \o <<ARG_ALGORITHM_FLAG, AlgorithmText[client.algorithm], Itoa(1)>>
           \in UnorderedLayouts \cap ArgLists

\* the calls the constructor issues for these arguments
ConstructorCalls(ctx, args) ==
    LET parsed(p) ==
            IF ~p.ok THEN <<>> ELSE create_executor_calls(p.command, ctx, p.command.key)
    IN parsed(parse_command_args(args))

\* C32: every command issues at most one writing store call (PSETEX or SET KEEPTTL); the
\* write is the last call, after every read (PTTL, GET, TIME), and is issued only when the
\* command accepts; the constructor issues reads only; the store the command leaves is
\* the store after those calls, so a command that fails or denies, at whichever call,
\* leaves the store as it was.
C32_OneWriteAfterReads ==
    \A args \in ValidCalls \cup InvalidCalls :
    \A fault \in (IF args \in ValidCalls THEN Faults ELSE {"none"}) :
        LET judged(ctx, calls, built, r) ==
                /\ Cardinality({i \in DOMAIN calls : calls[i].call \in WriteCalls}) <= 1
                /\ \A i \in DOMAIN calls :
                       /\ calls[i].call \in ReadCalls \cup WriteCalls
                       /\ calls[i].call \in WriteCalls =>
                              (i = Len(calls) /\ r.ok /\ r.value # INSUFFICIENT_TOKENS)
                /\ \A i \in DOMAIN built : built[i].call \in ReadCalls
                /\ r.store = Replay(calls, ctx)
                /\ (~r.ok \/ r.value = INSUFFICIENT_TOKENS) => r.store = store
                /\ (r.ok /\ r.value # INSUFFICIENT_TOKENS) =>
                       calls[Len(calls)].call \in WriteCalls
            on(ctx) == judged(ctx, redis_command_calls(ctx, args),
                              ConstructorCalls(ctx, args), redis_command(ctx, args))
        IN on([store |-> store, now |-> now, fault |-> fault])

\* on a live fixed window a call for one unit issues PTTL, GET and SET KEEPTTL in this
\* order, and only PTTL and GET when the GET fails
C32_ReadsThenOneWrite ==
    /\ client.algorithm = "fixed_window"
    /\ KeyPresent
    /\ \E args \in ValidCalls :
           LET names(calls) == [i \in DOMAIN calls |-> calls[i].call]
               on(fault) == names(redis_command_calls(
                                [store |-> store, now |-> now, fault |-> fault], args))
           IN /\ on("none") = <<"PTTL", "GET", "SET">>
              /\ on("get") = <<"PTTL", "GET">>

\* the leaky bucket LeakyBucket::new builds from the key
BucketSeen ==
    LeakyBucket_new([store |-> store, now |-> now, fault |-> "none"], ClientKey,
                    client.capacity, client.period)

\* C33: leaky bucket: for every stored value and every TTL, an absent key included, the
\* level construction computes, which execute then uses, is in [0, capacity].
C33_LevelInRange ==
    client.algorithm = "leaky_bucket" =>
        LET in_range(b) == b.ok => b.self.level \in MIN_LEVEL..client.capacity
        IN in_range(BucketSeen)

\* the client's period in milliseconds
PeriodMs == client.period * MILLIS_IN_SEC

\* window starts around the host time: invalid ones, the present, and starts one and two
\* windows back and around them
StartSamples ==
    {-1, 0, now + 1, I64_MAX}
    \cup {t \in {now - d : d \in {0, 1, PeriodMs - 1, PeriodMs, PeriodMs + 1, 2 * PeriodMs - 1,
                                   2 * PeriodMs, 2 * PeriodMs + 1}} : t >= 0}

\* a sliding window of the client with these fields
WindowWith(start, current, previous) ==
    [key |-> ClientKey, capacity |-> client.capacity, period |-> PeriodMs,
     current_start |-> start, current_count |-> current, previous_count |-> previous]

\* C34: sliding window: after align_to_now(now) the current window covers now
\* (current_start <= now < current_start + T) and the elapsed time returned is now -
\* current_start, in [0, T); if less than one window had elapsed the counters are
\* unchanged, if one whole window but not two had elapsed previous_count is the old
\* current_count and current_count is 0, and if two or more had elapsed both are 0.
C34_AlignCoversNow ==
    client.algorithm = "sliding_window" =>
        \A start \in StartSamples, current \in 0..client.capacity,
           previous \in 0..client.capacity :
            LET aligned(a, start0) ==
                    /\ a.self.current_start <= now
                    /\ now < a.self.current_start + PeriodMs
                    /\ a.elapsed = now - a.self.current_start
                    /\ a.elapsed \in 0..(PeriodMs - 1)
                    /\ a.self.current_start = start0 + ((now - start0) \div PeriodMs) * PeriodMs
                    /\ now - start0 < PeriodMs =>
                           /\ a.self.current_count = current
                           /\ a.self.previous_count = previous
                    /\ now - start0 \in PeriodMs..(2 * PeriodMs - 1) =>
                           /\ a.self.current_count = MIN_COUNT
                           /\ a.self.previous_count = current
                    /\ now - start0 >= 2 * PeriodMs =>
                           /\ a.self.current_count = MIN_COUNT
                           /\ a.self.previous_count = MIN_COUNT
            IN aligned(align_to_now(WindowWith(start, current, previous), now),
                       IF start > now \/ start < 0 THEN now ELSE start)

\* the key holds a window with a count that started two or more windows ago
C34_TwoWindowsPassed ==
    /\ client.algorithm = "sliding_window"
    /\ KeyPresent
    /\ LET stored(d) ==
               /\ d.some
               /\ d.current > 0
               /\ now - d.start >= 2 * PeriodMs
               /\ align_to_now(WindowWith(d.start, d.current, d.previous), now).self
                      = WindowWith(d.start + ((now - d.start) \div PeriodMs) * PeriodMs,
                                   MIN_COUNT, MIN_COUNT)
       IN stored(decode_state(store[ClientKey].val))

\* the executor construction builds for a valid call in the current state
ExecutorSeen(args) ==
    create_executor(parse_command_args(args).command,
                    [store |-> store, now |-> now, fault |-> "none"], Subject)

\* the refill or leak of a bucket for the time elapsed, before it is narrowed to a word
ShareElapsed(capacity, period_ms) ==
    LET share(pttl) ==
            TruncDiv((period_ms - clamp(pttl.ttl, MIN_TTL, period_ms)) * capacity, period_ms)
    IN share(Call_PTTL([store |-> store, now |-> now, fault |-> "none"], ClientKey))

\* C35: for valid inputs and any stored state no step of construction or execute leaves
\* the machine word or goes negative: the refill, leak or weighted previous count before
\* narrowing is in [0, capacity], the balance, level or counts construction computes are
\* not negative, a successful call returns -1 or a non-negative word, and the number it
\* writes is not negative.
C35_ArithmeticInRange ==
    \A args \in ValidCalls :
        LET natural(x) == 0 <= x /\ x <= I64_MAX
            weighted(a, period_ms) ==
                TruncDiv(a.self.previous_count * (period_ms - a.elapsed), period_ms)
            balance(self) ==
                CASE client.algorithm = "token_bucket" -> natural(self.tokens)
                  [] client.algorithm = "leaky_bucket" -> natural(self.level)
                  [] client.algorithm = "fixed_window" -> natural(self.count)
                  [] client.algorithm = "sliding_window" ->
                         /\ natural(self.current_count)
                         /\ natural(self.previous_count)
                         /\ weighted(align_to_now(self, now), self.period)
                                \in 0..Capacity(args)
            written(e) ==
                (e.kind = "string" /\ client.algorithm # "sliding_window")
                    => ParseI64(e.val).v >= 0
            sound(ex, r) ==
                /\ ex.ok => balance(ex.self)
                /\ client.algorithm \in {"token_bucket", "leaky_bucket"} =>
                       ShareElapsed(Capacity(args), ParseI64(args.period).v * MILLIS_IN_SEC)
                           \in 0..Capacity(args)
                /\ r.ok => (r.value = INSUFFICIENT_TOKENS \/ natural(r.value))
                /\ r.ok => written(r.store[ClientKey])
        IN sound(ExecutorSeen(args), Run(args, "none"))

\* the idle time after which a policy must accept again: one period, two for the
\* sliding window
IdleMs == (IF client.algorithm = "sliding_window" THEN 2 ELSE 1) * PeriodMs

\* times at which an interval that starts now has lasted the idle time or longer
TimesAfterIdling == {now + IdleMs + d : d \in {0, 1, PeriodMs - 1, PeriodMs}}

\* C36: no starvation after idling: with one (capacity, period), a step that accepts no
\* call, a denied call included, changes the store by the expiry of keys only; and after
\* any interval of at least one period (two for the sliding window) in which no call is
\* accepted, a call for any units up to the capacity is accepted.
C36_AcceptedAfterIdling ==
    /\ [](\A t \in TimesAfterIdling, args \in ValidCalls :
              Units(args) <= client.capacity =>
                  LET accepted(r) == r.ok /\ r.value # INSUFFICIENT_TOKENS
                  IN accepted(RunAt(Expire(store, t), t, args)))
    /\ [][~(reply'.status = "ok" /\ reply'.value # INSUFFICIENT_TOKENS)
              => store' = Expire(store, now')]_vars

\* a call was denied on a key just filled; once the idle time has passed a call for the
\* whole capacity is accepted
C36_DeniedThenAcceptedAfterIdling ==
    /\ Denied
    /\ KeyPresent
    /\ RemainingTtl = IdleMs
    /\ \A args \in ValidCalls :
           /\ Run(args, "none").value = INSUFFICIENT_TOKENS
           /\ Units(args) = client.capacity =>
                  RunAt(Expire(store, now + IdleMs), now + IdleMs, args).value >= 0

\* the effective usage a call at time t computes over store st: the window is built from
\* the key, aligned to t and weighed as consume does
UsageAt(st, t) ==
    LET weighed(w) == effective_usage(w.self, align_to_now(w.self, t).elapsed)
    IN weighed(SlidingWindow_new([store |-> st, now |-> t, fault |-> "none"], ClientKey,
                                 client.capacity, client.period))

\* delays from the present up to and past two windows, around every rollover
Delays ==
    {0, 1, PeriodMs \div 2, PeriodMs - 1, PeriodMs, PeriodMs + 1, PeriodMs + PeriodMs \div 2,
     2 * PeriodMs - 1, 2 * PeriodMs, 2 * PeriodMs + 1}

\* C37: sliding window: while the clock does not go back and no call is accepted, the
\* effective usage successive calls see never increases, across window rollover and
\* across the expiry of the key as well.
C37_UsageNeverIncreases ==
    /\ [](client.algorithm = "sliding_window" =>
              \A d1 \in Delays :
              \A d2 \in {d \in Delays : d >= d1} :
                  UsageAt(Expire(store, now + d2), now + d2)
                      <= UsageAt(Expire(store, now + d1), now + d1))
    /\ [][(/\ client.algorithm = "sliding_window"
            /\ now' >= now
            /\ ~(reply'.status = "ok" /\ reply'.value # INSUFFICIENT_TOKENS))
              => UsageAt(store', now') <= UsageAt(store, now)]_vars

\* a call was denied on a used window: the usage it saw falls through the next window
\* and is gone when the key expires
C37_UsageFallsToExpiry ==
    /\ client.algorithm = "sliding_window"
    /\ Denied
    /\ KeyPresent
    /\ store[ClientKey].exp <= now + 2 * PeriodMs
    /\ LET late == now + PeriodMs + PeriodMs \div 2
       IN /\ UsageAt(store, now) > UsageAt(Expire(store, late), late)
          /\ UsageAt(Expire(store, late), late) > 0
          /\ UsageAt(Expire(store, now + 2 * PeriodMs), now + 2 * PeriodMs) = 0

\* the window a call at time t builds from the key of store st
WindowAt(st, t) ==
    SlidingWindow_new([store |-> st, now |-> t, fault |-> "none"], ClientKey,
                      client.capacity, client.period)

\* store st after a call at time t has persisted the window it aligned, as an accepted
\* call does
PersistedAt(st, t) ==
    persist_state([store |-> st, now |-> t, fault |-> "none"], WindowAt(st, t).self)

\* the calls of the client that ask for no more than the capacity
FittingCalls == {args \in ValidCalls : Units(args) <= client.capacity}

\* C38: sliding window: alignment composes: for a valid window and times t1 <= t2,
\* aligning to t1 and then to t2 gives the state and the elapsed time that aligning to
\* t2 directly gives; so a denied call, which does not persist the window it aligned,
\* changes no later decision: whatever calls follow it are decided as they would be if
\* the denial had persisted its window.
C38_DenialChangesNoLaterDecision ==
    client.algorithm = "sliding_window" =>
        /\ \A start \in {t \in StartSamples : 0 <= t /\ t <= now},
              current \in 0..client.capacity, previous \in 0..client.capacity :
           \A d1 \in Delays :
           \A d2 \in {d \in Delays : d >= d1} :
               align_to_now(align_to_now(WindowWith(start, current, previous),
                                         now + d1).self, now + d2)
                   = align_to_now(WindowWith(start, current, previous), now + d2)
        /\ \A d1 \in Delays :
           \A d2 \in {d \in Delays : d >= d1} :
           \A d3 \in Delays :
           \A second \in FittingCalls :
           \A third \in FittingCalls :
               LET t1 == now + d1
                   t2 == now + d2
                   t3 == now + d2 + d3
                   same(a, b) == a.ok = b.ok /\ a.value = b.value
                   later(a, b) ==
                       /\ same(a, b)
                       /\ same(RunAt(Expire(a.store, t3), t3, third),
                               RunAt(Expire(b.store, t3), t3, third))
                   after(kept, persisted) ==
                       later(RunAt(Expire(kept, t2), t2, second),
                             RunAt(Expire(persisted, t2), t2, second))
                   denied(kept) ==
                       (\E first \in FittingCalls :
                            RunAt(kept, t1, first).value = INSUFFICIENT_CAPACITY)
                           => after(kept, PersistedAt(kept, t1))
               IN denied(Expire(store, t1))

\* C38, amended: alignment composes as stated; a denied call, which does not persist the
\* window it aligned, leaves the next call the counts, the usage and the decision it
\* would have had if the denial had persisted its window. The window start may differ
\* once the key has expired, and with it decisions after the next accepted call.
C38_AlignmentComposes ==
    client.algorithm = "sliding_window" =>
        /\ \A start \in {t \in StartSamples : 0 <= t /\ t <= now},
              current \in 0..client.capacity, previous \in 0..client.capacity :
           \A d1 \in Delays :
           \A d2 \in {d \in Delays : d >= d1} :
               align_to_now(align_to_now(WindowWith(start, current, previous),
                                         now + d1).self, now + d2)
                   = align_to_now(WindowWith(start, current, previous), now + d2)
        /\ \A d1 \in Delays :
           \A d2 \in {d \in Delays : d >= d1} :
               LET t1 == now + d1
                   t2 == now + d2
                   alike(a, b) ==
                       /\ a.ok /\ b.ok
                       /\ a.self.current_count = b.self.current_count
                       /\ a.self.previous_count = b.self.previous_count
                   next(kept, persisted) ==
                       /\ alike(WindowAt(kept, t2), WindowAt(persisted, t2))
                       /\ UsageAt(kept, t2) = UsageAt(persisted, t2)
                       /\ \A args \in ValidCalls :
                              RunAt(kept, t2, args).value = RunAt(persisted, t2, args).value
                   after(kept) ==
                       next(Expire(kept, t2), Expire(PersistedAt(kept, t1), t2))
               IN after(Expire(store, t1))

\* a call was denied after the stored window had rolled over: the key still holds the
\* window as the last accepted call left it, whose alignment differs from it
C38_DeniedOnRolledWindow ==
    /\ client.algorithm = "sliding_window"
    /\ Denied
    /\ KeyPresent
    /\ LET stored(d) ==
               /\ d.some
               /\ d.current > 0
               /\ now - d.start >= PeriodMs
               /\ WindowAt(store, now).self.current_start # d.start
               /\ PersistedAt(store, now) # store
       IN stored(decode_state(store[ClientKey].val))

\* a step in which an accepted call of the fixed window sets the key's expiry (PSETEX)
\* although the key it finds has not expired
CreatedOverLiveKey ==
    /\ client.algorithm = "fixed_window"
    /\ KeyPresent
    /\ reply'.status = "ok" /\ reply'.value # INSUFFICIENT_TOKENS
    /\ store'[ClientKey].exp # store[ClientKey].exp

\* C39: fixed window: with one (capacity, period), between the accepted call that
\* creates the key (PSETEX) and that key's expiry, the units of all accepted calls sum
\* to at most capacity: those counted in the key, and those of a call that replaces the
\* key before it has expired as well.
C39_UnitsUntilExpiry ==
    /\ [](client.algorithm = "fixed_window" => hist.window <= client.capacity)
    /\ [][CreatedOverLiveKey => hist.window + hist'.window <= client.capacity]_vars

\* C39, amended: the units accepted between the call that creates the key (PSETEX) and
\* the next call that creates it sum to at most capacity. The key is created again
\* before it has expired only by a call in its last millisecond (remaining TTL at most
\* MIN_ACTIVE_TTL_MS), whose units count in the new window: up to 2 * capacity may be
\* accepted between a PSETEX and the expiry it set.
C39_UnitsPerStoredWindow ==
    /\ [](client.algorithm = "fixed_window" => hist.window <= client.capacity)
    /\ [][CreatedOverLiveKey =>
              /\ RemainingTtl <= MIN_ACTIVE_TTL_MS
              /\ store'[ClientKey].exp = now + PeriodMs
              /\ hist.window + hist'.window <= 2 * client.capacity]_vars

\* a call has created the key again less than one period after the call that created
\* it before, and both windows were used in full
C39_CreatedAgainInLastMillisecond ==
    /\ client.algorithm = "fixed_window"
    /\ Accepted
    /\ RemainingTtl = PeriodMs
    /\ hist.window = client.capacity
    /\ Len(hist.log) >= 2
    /\ hist.log[1][1] = now - PeriodMs + MIN_ACTIVE_TTL_MS
    /\ LogSum(hist.log) = 2 * client.capacity

\* the units accepted from the i-th accepted call of the last period on
UnitsSince(i) == LogSum(SubSeq(hist.log, i, Len(hist.log)))

\* C40: token bucket burst bound: with one (capacity C, period T) and a key that starts
\* absent, the units of all accepted calls within any interval of d milliseconds sum to
\* at most C + floor(d * C / T_ms), hence to at most 2 * C within any interval of one
\* period.
C40_BurstBound ==
    client.algorithm = "token_bucket" =>
        /\ \A i \in DOMAIN hist.log :
               UnitsSince(i)
                   <= client.capacity
                      + ((now - hist.log[i][1]) * client.capacity) \div PeriodMs
        /\ LogSum(hist.log) <= 2 * client.capacity

\* a burst beyond the capacity: calls accepted within less than a period that use the
\* whole capacity and all that was refilled since
C40_BurstAboveCapacity ==
    /\ client.algorithm = "token_bucket"
    /\ Accepted
    /\ Len(hist.log) >= 2
    /\ now - hist.log[1][1] < PeriodMs
    /\ LogSum(hist.log) > client.capacity
    /\ LogSum(hist.log)
           = client.capacity + ((now - hist.log[1][1]) * client.capacity) \div PeriodMs

====
